---- MODULE Spec2Model ----
(***************************************************************************)
(* The chat orchestration of perk-api (services/service.js): chatbotChat   *)
(* with buildMessages, callHfChat, parseLlmResponse and executeTool.       *)
(*                                                                         *)
(* Text is modelled as a sequence of atoms: an atom is one lexical unit    *)
(* (a brace, a quote, a blank, a word, a number, a <think> tag).          *)
(* JavaScript values are tagged records: [k |-> kind, v |-> payload].      *)
(***************************************************************************)
EXTENDS Integers, Sequences, FiniteSets, TLC

(***************************************************************************)
(* JavaScript values                                                       *)
(***************************************************************************)
Undefined == [k |-> "undefined"]
Null == [k |-> "null"]
Bool(b) == [k |-> "bool", v |-> b]
Num(n) == [k |-> "num", v |-> n]
Str(t) == [k |-> "str", v |-> t]
Arr(s) == [k |-> "arr", v |-> s]
Obj(ps) == [k |-> "obj", v |-> ps]

\* one property of an object literal: the key is a text
P(name, val) == << <<name>>, val >>

\* a one-atom string
S(word) == Str(<<word>>)

IsNullish(x) == x.k \in {"undefined", "null"}

\* ToBoolean: what `if (x)`, `!x` and `x || y` test
Truthy(x) ==
  CASE x.k = "undefined" -> FALSE
    [] x.k = "null" -> FALSE
    [] x.k = "bool" -> x.v
    [] x.k = "num" -> x.v # 0
    [] x.k = "str" -> Len(x.v) > 0
    [] OTHER -> TRUE

\* a || b
OrElse(a, b) == IF Truthy(a) THEN a ELSE b

\* a === b for the comparisons the handlers make (against a string literal)
StrictEqStr(x, word) == x.k = "str" /\ x.v = <<word>>

RECURSIVE LookUp(_, _, _)
LookUp(ps, key, i) ==
  IF i > Len(ps) THEN Undefined
  ELSE IF ps[i][1] = key THEN ps[i][2]
  ELSE LookUp(ps, key, i + 1)

\* x.name for a value that is not null or undefined (those throw TypeError)
Get(x, name) == IF x.k = "obj" THEN LookUp(x.v, <<name>>, 1) ELSE Undefined

(***************************************************************************)
(* Text atoms                                                              *)
(***************************************************************************)
WS == " "
QUOTE == "\""
ESCQ == "\\\""
THINK_OPEN == "<think>"
THINK_CLOSE == "</think>"

\* the integers that have a number atom
NumRange == -2 .. 50

IsNumAtom(a) == \E n \in NumRange : ToString(n) = a

AtomNum(a) == CHOOSE n \in NumRange : ToString(n) = a

RECURSIVE Join(_, _)
\* the texts of ts with sep between them
Join(ts, sep) ==
  IF Len(ts) = 0 THEN <<>>
  ELSE IF Len(ts) = 1 THEN ts[1]
  ELSE ts[1] \o sep \o Join(Tail(ts), sep)

RECURSIVE ToText(_)
\* String(x), as a template literal `${x}` converts
ToText(x) ==
  CASE x.k = "undefined" -> <<"undefined">>
    [] x.k = "null" -> <<"null">>
    [] x.k = "bool" -> IF x.v THEN <<"true">> ELSE <<"false">>
    [] x.k = "num" -> <<ToString(x.v)>>
    [] x.k = "str" -> x.v
    [] x.k = "arr" ->
         Join([i \in 1..Len(x.v) |->
                 IF IsNullish(x.v[i]) THEN <<>> ELSE ToText(x.v[i])], <<",">>)
    [] OTHER -> <<"[object Object]">>

RECURSIVE TrimLeft(_)
TrimLeft(t) == IF Len(t) > 0 /\ t[1] = WS THEN TrimLeft(Tail(t)) ELSE t

RECURSIVE TrimRight(_)
TrimRight(t) ==
  IF Len(t) > 0 /\ t[Len(t)] = WS THEN TrimRight(SubSeq(t, 1, Len(t) - 1)) ELSE t

\* String.prototype.trim
Trim(t) == TrimRight(TrimLeft(t))

\* whether text part occurs in text t
Contains(t, part) ==
  \E i \in 1..(Len(t) - Len(part) + 1) : SubSeq(t, i, i + Len(part) - 1) = part

(***************************************************************************)
(* JSON.stringify                                                          *)
(***************************************************************************)
EscapeAtom(a) == IF a = QUOTE THEN ESCQ ELSE a

Quoted(t) == <<QUOTE>> \o [i \in 1..Len(t) |-> EscapeAtom(t[i])] \o <<QUOTE>>

RECURSIVE Defined(_)
\* the properties whose value JSON.stringify keeps
Defined(ps) ==
  IF Len(ps) = 0 THEN <<>>
  ELSE IF ps[1][2].k = "undefined" THEN Defined(Tail(ps))
  ELSE <<ps[1]>> \o Defined(Tail(ps))

RECURSIVE Stringify(_)
\* JSON.stringify(x) for x other than undefined
Stringify(x) ==
  CASE x.k = "undefined" -> <<"null">>
    [] x.k = "null" -> <<"null">>
    [] x.k = "bool" -> IF x.v THEN <<"true">> ELSE <<"false">>
    [] x.k = "num" -> <<ToString(x.v)>>
    [] x.k = "str" -> Quoted(x.v)
    [] x.k = "arr" ->
         <<"[">> \o Join([i \in 1..Len(x.v) |-> Stringify(x.v[i])], <<",">>) \o <<"]">>
    [] OTHER ->
         LET ps == Defined(x.v)
         IN  <<"{">>
             \o Join([i \in 1..Len(ps) |->
                        Quoted(ps[i][1]) \o <<":">> \o Stringify(ps[i][2])], <<",">>)
             \o <<"}">>

(***************************************************************************)
(* JSON.parse                                                              *)
(***************************************************************************)
ParseFail == [ok |-> FALSE, val |-> Undefined, pos |-> 0]

ParseOk(val, pos) == [ok |-> TRUE, val |-> val, pos |-> pos]

RECURSIVE SkipWs(_, _)
SkipWs(t, i) == IF i <= Len(t) /\ t[i] = WS THEN SkipWs(t, i + 1) ELSE i

RECURSIVE ScanString(_, _, _)
\* the string literal whose opening quote is just before position i
ScanString(t, i, acc) ==
  IF i > Len(t) THEN ParseFail
  ELSE IF t[i] = QUOTE THEN ParseOk(Str(acc), i + 1)
  ELSE ScanString(t, i + 1, Append(acc, IF t[i] = ESCQ THEN QUOTE ELSE t[i]))

RECURSIVE SetProp(_, _, _, _)
\* a repeated key keeps its first place and takes the last value
SetProp(ps, key, val, i) ==
  IF i > Len(ps) THEN Append(ps, <<key, val>>)
  ELSE IF ps[i][1] = key THEN [ps EXCEPT ![i] = <<key, val>>]
  ELSE SetProp(ps, key, val, i + 1)

RECURSIVE ParseValue(_, _)
RECURSIVE ParseMembers(_, _, _)
RECURSIVE ParseElements(_, _, _)

\* the members of an object from position i on, a key expected at i
ParseMembers(t, i0, acc) ==
  LET i == SkipWs(t, i0)
  IN  IF i > Len(t) \/ t[i] # QUOTE THEN ParseFail
      ELSE LET key == ScanString(t, i + 1, <<>>)
           IN  IF ~key.ok THEN ParseFail
               ELSE LET c == SkipWs(t, key.pos)
                    IN  IF c > Len(t) \/ t[c] # ":" THEN ParseFail
                        ELSE LET val == ParseValue(t, c + 1)
                             IN  IF ~val.ok THEN ParseFail
                                 ELSE LET e == SkipWs(t, val.pos)
                                          ps == SetProp(acc, key.val.v, val.val, 1)
                                      IN  IF e > Len(t) THEN ParseFail
                                          ELSE IF t[e] = "}" THEN ParseOk(Obj(ps), e + 1)
                                          ELSE IF t[e] = "," THEN ParseMembers(t, e + 1, ps)
                                          ELSE ParseFail

\* the elements of an array from position i on, a value expected at i
ParseElements(t, i0, acc) ==
  LET val == ParseValue(t, i0)
  IN  IF ~val.ok THEN ParseFail
      ELSE LET e == SkipWs(t, val.pos)
               es == Append(acc, val.val)
           IN  IF e > Len(t) THEN ParseFail
               ELSE IF t[e] = "]" THEN ParseOk(Arr(es), e + 1)
               ELSE IF t[e] = "," THEN ParseElements(t, e + 1, es)
               ELSE ParseFail

ParseValue(t, i0) ==
  LET i == SkipWs(t, i0)
  IN  IF i > Len(t) THEN ParseFail
      ELSE IF t[i] = "{" THEN
             LET j == SkipWs(t, i + 1)
             IN  IF j <= Len(t) /\ t[j] = "}" THEN ParseOk(Obj(<<>>), j + 1)
                 ELSE ParseMembers(t, i + 1, <<>>)
      ELSE IF t[i] = "[" THEN
             LET j == SkipWs(t, i + 1)
             IN  IF j <= Len(t) /\ t[j] = "]" THEN ParseOk(Arr(<<>>), j + 1)
                 ELSE ParseElements(t, i + 1, <<>>)
      ELSE IF t[i] = QUOTE THEN ScanString(t, i + 1, <<>>)
      ELSE IF t[i] = "null" THEN ParseOk(Null, i + 1)
      ELSE IF t[i] = "true" THEN ParseOk(Bool(TRUE), i + 1)
      ELSE IF t[i] = "false" THEN ParseOk(Bool(FALSE), i + 1)
      ELSE IF IsNumAtom(t[i]) THEN ParseOk(Num(AtomNum(t[i])), i + 1)
      ELSE ParseFail

\* JSON.parse(t): ok = FALSE stands for the SyntaxError it throws
JsonParse(t) ==
  LET r == ParseValue(t, 1)
  IN  IF r.ok /\ SkipWs(t, r.pos) > Len(t) THEN r ELSE ParseFail

(***************************************************************************)
(* parseLlmResponse (service.js:547)                                       *)
(***************************************************************************)
RECURSIVE StripThink(_)
\* raw.replace(/<think>[\s\S]*?<\/think>/g, ""): each <think> up to the
\* nearest </think> after it is removed, left to right
StripThink(t) ==
  IF \E i \in 1..Len(t) : t[i] = THINK_OPEN /\ \E j \in (i + 1)..Len(t) : t[j] = THINK_CLOSE
  THEN LET i == CHOOSE a \in 1..Len(t) :
                   /\ t[a] = THINK_OPEN
                   /\ \A b \in 1..(a - 1) : t[b] # THINK_OPEN
           j == CHOOSE a \in (i + 1)..Len(t) :
                   /\ t[a] = THINK_CLOSE
                   /\ \A b \in (i + 1)..(a - 1) : t[b] # THINK_CLOSE
       IN  SubSeq(t, 1, i - 1) \o StripThink(SubSeq(t, j + 1, Len(t)))
  ELSE t

HasBraces(t) == \E i \in 1..Len(t) : t[i] = "{" /\ \E j \in (i + 1)..Len(t) : t[j] = "}"

\* cleaned.match(/\{[\s\S]*\}/)[0]: the first "{" through the last "}"
BraceMatch(t) ==
  LET i == CHOOSE a \in 1..Len(t) : t[a] = "{" /\ \A b \in 1..(a - 1) : t[b] # "{"
      j == CHOOSE a \in 1..Len(t) : t[a] = "}" /\ \A b \in (a + 1)..Len(t) : t[b] # "}"
  IN  SubSeq(t, i, j)

\* the catch branch: the raw reply becomes the message of a final decision
ParseFallback(raw) ==
  Obj(<<P("type", S("final")), P("message", raw),
        P("relatedMaterials", Arr(<<>>)), P("suggestedActions", Arr(<<>>))>>)

parseLlmResponse(raw) ==
  IF raw.k # "str" THEN ParseFallback(raw)
  ELSE LET cleaned == Trim(StripThink(raw.v))
           r == IF HasBraces(cleaned) THEN JsonParse(BraceMatch(cleaned))
                ELSE JsonParse(cleaned)
       IN  IF r.ok THEN r.val ELSE ParseFallback(raw)

(***************************************************************************)
(* buildMessages (service.js:464)                                          *)
(***************************************************************************)
SYSTEM_PROMPT == <<"SYSTEM_PROMPT">>

Turn(role, content) == [role |-> role, content |-> content]

NoToolResult == [present |-> FALSE]

\* a tool result that does not keep the arguments of the call
ToolResult_noArgs(tool, args, output) ==
  [present |-> TRUE, tool |-> tool, args |-> Undefined, output |-> output]

\* { tool, args, output: toolOutput }
ToolResult(tool, args, output) ==
  [present |-> TRUE, tool |-> tool, args |-> args, output |-> output]

\* msg.role of a history element that is null or undefined throws TypeError
BuildThrows(conversationHistory) ==
  /\ conversationHistory.k = "arr"
  /\ \E i \in 1..Len(conversationHistory.v) : IsNullish(conversationHistory.v[i])

\* the messages with the arguments of the tool injected in place of its output
buildMessages_noOutput(userMessage, conversationHistory, customInstructions, toolResult) ==
  <<Turn(S("system"), Str(SYSTEM_PROMPT))>>
  \o (IF Truthy(customInstructions)
      THEN <<Turn(S("system"),
                  Str(<<"Additional instructions: ">> \o ToText(customInstructions)))>>
      ELSE <<>>)
  \o (IF conversationHistory.k = "arr"
      THEN [i \in 1..Len(conversationHistory.v) |->
              Turn(Get(conversationHistory.v[i], "role"),
                   Get(conversationHistory.v[i], "content"))]
      ELSE <<>>)
  \o <<Turn(S("user"), userMessage)>>
  \o (IF toolResult.present
      THEN <<Turn(S("assistant"),
                  Str(Stringify(Obj(<<P("type", S("tool_call")),
                                      P("tool", toolResult.tool),
                                      P("args", toolResult.args)>>)))),
             Turn(S("user"),
                  Str(<<"Tool result for ">> \o ToText(toolResult.tool) \o <<": ">>
                      \o Stringify(toolResult.args)))>>
      ELSE <<>>)

\* the messages with the instructions turn pushed whether or not there are any
buildMessages_alwaysInstructions(userMessage, conversationHistory, customInstructions, toolResult) ==
  <<Turn(S("system"), Str(SYSTEM_PROMPT))>>
  \o <<Turn(S("system"),
            Str(<<"Additional instructions: ">> \o ToText(customInstructions)))>>
  \o (IF conversationHistory.k = "arr"
      THEN [i \in 1..Len(conversationHistory.v) |->
              Turn(Get(conversationHistory.v[i], "role"),
                   Get(conversationHistory.v[i], "content"))]
      ELSE <<>>)
  \o <<Turn(S("user"), userMessage)>>
  \o (IF toolResult.present
      THEN <<Turn(S("assistant"),
                  Str(Stringify(Obj(<<P("type", S("tool_call")),
                                      P("tool", toolResult.tool),
                                      P("args", toolResult.args)>>)))),
             Turn(S("user"),
                  Str(<<"Tool result for ">> \o ToText(toolResult.tool) \o <<": ">>
                      \o Stringify(toolResult.output)))>>
      ELSE <<>>)

buildMessages(userMessage, conversationHistory, customInstructions, toolResult) ==
  <<Turn(S("system"), Str(SYSTEM_PROMPT))>>
  \o (IF Truthy(customInstructions)
      THEN <<Turn(S("system"),
                  Str(<<"Additional instructions: ">> \o ToText(customInstructions)))>>
      ELSE <<>>)
  \o (IF conversationHistory.k = "arr"
      THEN [i \in 1..Len(conversationHistory.v) |->
              Turn(Get(conversationHistory.v[i], "role"),
                   Get(conversationHistory.v[i], "content"))]
      ELSE <<>>)
  \o <<Turn(S("user"), userMessage)>>
  \o (IF toolResult.present
      THEN <<Turn(S("assistant"),
                  Str(Stringify(Obj(<<P("type", S("tool_call")),
                                      P("tool", toolResult.tool),
                                      P("args", toolResult.args)>>)))),
             Turn(S("user"),
                  Str(<<"Tool result for ">> \o ToText(toolResult.tool) \o <<": ">>
                      \o Stringify(toolResult.output)))>>
      ELSE <<>>)

(***************************************************************************)
(* executeTool (service.js:570)                                            *)
(***************************************************************************)
RECURSIVE DotFrom(_, _, _)
DotFrom(a, b, i) == IF i > Len(a) THEN 0 ELSE a[i] * b[i] + DotFrom(a, b, i + 1)

\* nodeEmbedding.reduce((sum, val, idx) => sum + val * queryEmbedding[idx], 0)
Dot(a, b) == DotFrom(a, b, 1)

RECURSIVE InsertDesc(_, _)
RECURSIVE SortDesc(_)
\* x goes before the elements whose similarity is equal: an unstable sort
InsertDesc_unstable(sorted, x) ==
  IF Len(sorted) = 0 THEN <<x>>
  ELSE IF sorted[1].similarity > x.similarity
       THEN <<sorted[1]>> \o InsertDesc(Tail(sorted), x)
       ELSE <<x>> \o sorted

\* x goes after every element whose similarity is not lower: equal
\* similarities keep their order, as Array.prototype.sort (stable) does
InsertDesc(sorted, x) ==
  IF Len(sorted) = 0 THEN <<x>>
  ELSE IF sorted[1].similarity >= x.similarity
       THEN <<sorted[1]>> \o InsertDesc(Tail(sorted), x)
       ELSE <<x>> \o sorted

\* .sort((a, b) => b.similarity - a.similarity)
SortDesc(s) ==
  IF Len(s) = 0 THEN <<>>
  ELSE InsertDesc(SortDesc(SubSeq(s, 1, Len(s) - 1)), s[Len(s)])

\* ToIntegerOrInfinity of the end argument of slice
ToInt(x) ==
  CASE x.k = "num" -> x.v
    [] x.k = "bool" -> IF x.v THEN 1 ELSE 0
    [] x.k = "str" -> IF Len(Trim(x.v)) = 1 /\ IsNumAtom(Trim(x.v)[1])
                      THEN AtomNum(Trim(x.v)[1]) ELSE 0
    [] OTHER -> 0

\* s.slice(0, limit)
Slice0(s, limit) ==
  LET n == IF limit.k = "undefined" THEN Len(s) ELSE ToInt(limit)
      e == IF n < 0 THEN (IF Len(s) + n < 0 THEN 0 ELSE Len(s) + n)
           ELSE (IF n > Len(s) THEN Len(s) ELSE n)
  IN  SubSeq(s, 1, e)

DEFAULT_LIMIT == 5

\* the limit = 5 default of the destructuring applies to undefined only
LimitOf(args) ==
  IF Get(args, "limit").k = "undefined" THEN Num(DEFAULT_LIMIT) ELSE Get(args, "limit")

\* the scored, sorted and truncated records
Scored(records, queryEmbedding, limit) ==
  Slice0(SortDesc([i \in 1..Len(records) |->
                     [node |-> records[i].node,
                      similarity |-> Dot(records[i].embedding, queryEmbedding)]]),
         limit)

ScoredJs(scored) ==
  Arr([i \in 1..Len(scored) |->
         Obj(<<P("node", scored[i].node), P("similarity", Num(scored[i].similarity))>>)])

NoEmbeddings ==
  Obj(<<P("results", Arr(<<>>)), P("note", S("No embeddings found"))>>)

SearchOutput(records, queryEmbedding, limit) ==
  Obj(<<P("results", ScoredJs(Scored(records, queryEmbedding, limit)))>>)

MaterialRequestOutput(time) ==
  Obj(<<P("requestId", Str(<<"req_", ToString(time)>>)), P("status", S("queued"))>>)

\* the payload without the name of the tool
UnknownToolOutput_noName(tool) ==
  Obj(<<P("error", Str(<<"Unknown tool">>))>>)

\* return { error: `Unknown tool: ${tool}` }
UnknownToolOutput(tool) ==
  Obj(<<P("error", Str(<<"Unknown tool: ">> \o ToText(tool)))>>)

(***************************************************************************)
(* chatbotChat (service.js:638): the responses                             *)
(***************************************************************************)
NoResponse ==
  [status |-> 0, error |-> Undefined, message |-> Undefined,
   relatedMaterials |-> Undefined, suggestedActions |-> Undefined,
   sessionId |-> Undefined, lastUpdated |-> Undefined, details |-> Undefined]

\* the validation without its trim test
InvalidMessage_noTrim(message) ==
  \/ ~Truthy(message)
  \/ message.k # "str"

\* !message || typeof message !== "string" || message.trim() === ""
InvalidMessage(message) ==
  \/ ~Truthy(message)
  \/ message.k # "str"
  \/ Trim(message.v) = <<>>

BadRequest ==
  [NoResponse EXCEPT !.status = 400,
                     !.error = S("message is required and must be a string")]

\* new Date().toISOString()
ToISOString(time) == Str(<<"T", ToString(time), "Z">>)

\* the response built without the materials of the decision
FinalResponse_noMaterials(parsed, sessionId, time) ==
  [NoResponse EXCEPT
     !.status = 200,
     !.message = OrElse(Get(parsed, "message"), Str(<<>>)),
     !.relatedMaterials = Arr(<<>>),
     !.suggestedActions = OrElse(Get(parsed, "suggestedActions"), Arr(<<>>)),
     !.sessionId = OrElse(sessionId, Str(<<"session_", ToString(time)>>)),
     !.lastUpdated = ToISOString(time)]

\* the response with a placeholder material where the decision names none
FinalResponse_placeholder(parsed, sessionId, time) ==
  [NoResponse EXCEPT
     !.status = 200,
     !.message = OrElse(Get(parsed, "message"), Str(<<>>)),
     !.relatedMaterials = OrElse(Get(parsed, "relatedMaterials"),
                                 Arr(<<Obj(<<P("nodeId", S("unknown"))>>)>>)),
     !.suggestedActions = OrElse(Get(parsed, "suggestedActions"), Arr(<<>>)),
     !.sessionId = OrElse(sessionId, Str(<<"session_", ToString(time)>>)),
     !.lastUpdated = ToISOString(time)]

\* the response whose session id is always a generated one
FinalResponse_newSession(parsed, sessionId, time) ==
  [NoResponse EXCEPT
     !.status = 200,
     !.message = OrElse(Get(parsed, "message"), Str(<<>>)),
     !.relatedMaterials = OrElse(Get(parsed, "relatedMaterials"), Arr(<<>>)),
     !.suggestedActions = OrElse(Get(parsed, "suggestedActions"), Arr(<<>>)),
     !.sessionId = Str(<<"session_", ToString(time)>>),
     !.lastUpdated = ToISOString(time)]

\* res.json(response), status 200
FinalResponse(parsed, sessionId, time) ==
  [NoResponse EXCEPT
     !.status = 200,
     !.message = OrElse(Get(parsed, "message"), Str(<<>>)),
     !.relatedMaterials = OrElse(Get(parsed, "relatedMaterials"), Arr(<<>>)),
     !.suggestedActions = OrElse(Get(parsed, "suggestedActions"), Arr(<<>>)),
     !.sessionId = OrElse(sessionId, Str(<<"session_", ToString(time)>>)),
     !.lastUpdated = ToISOString(time)]

\* an Error object: error.response is absent unless the provider set it
Err(name, message, data) == [name |-> name, message |-> message, data |-> data]

TypeErr(message) == Err("TypeError", Str(<<message>>), Undefined)

\* res.status(500).json(...) of the catch block
ErrorResponse(err) ==
  [NoResponse EXCEPT
     !.status = 500,
     !.error = S("Chat request failed"),
     !.message = err.message,
     !.details = OrElse(err.data, Str(<<err.name, ": ">> \o ToText(err.message)))]

(***************************************************************************)
(* Inputs: request bodies, LLM replies, store contents, failures           *)
(***************************************************************************)
\* the longest generated LLM reply, in atoms
MaxRawLen == 2

\* the most clock ticks between two readings of Date.now()
MaxDelay == 1

Body(message, sessionId, conversationHistory, customInstructions) ==
  [message |-> message, sessionId |-> sessionId,
   conversationHistory |-> conversationHistory,
   customInstructions |-> customInstructions]

HistoryTurn(role, content) == Obj(<<P("role", S(role)), P("content", S(content))>>)

History2 ==
  Arr(<<HistoryTurn("user", "Tell me about JavaScript"),
        HistoryTurn("assistant", "JavaScript is a programming language.")>>)

Bodies ==
  << Body(Undefined, Undefined, Undefined, Undefined),
     Body(Null, S("test-session-123"), Arr(<<>>), Null),
     Body(Num(123), S("test-session-123"), Arr(<<>>), Null),
     Body(Num(0), Undefined, Undefined, Undefined),
     Body(Bool(TRUE), Undefined, Undefined, Undefined),
     Body(Arr(<<S("hi")>>), Undefined, Undefined, Undefined),
     Body(Str(<<>>), S("test-session-123"), Arr(<<>>), Null),
     Body(Str(<<WS, WS>>), S("test-session-123"), Arr(<<>>), Null),
     Body(Str(<<"I", WS, "want", WS, "to", WS, "learn", WS, "React">>),
          S("test-session-123"), Arr(<<>>), Null),
     Body(Str(<<WS, "hi", WS>>), Undefined, History2, S("Focus on beginners")),
     Body(S("hi"), Str(<<>>), S("not an array"), Str(<<>>)),
     Body(S("hi"), Num(7), Arr(<<Null>>), Undefined),
     Body(S("hi"), Num(7), History2, Str(<<WS>>)) >>

Material(nodeId, name, type) ==
  Obj(<<P("nodeId", S(nodeId)), P("name", S(name)), P("type", S(type))>>)

ToolCall(tool, args) ==
  Obj(<<P("type", S("tool_call")), P("tool", S(tool)), P("args", args)>>)

\* decisions the LLM emits, as JavaScript values (sent as their JSON text)
DecisionObjects ==
  { Obj(<<P("type", S("final")), P("message", Str(<<"React", WS, "hooks">>)),
          P("relatedMaterials", Arr(<<Material("n1", "React", "skill")>>)),
          P("suggestedActions", Arr(<<S("Learn useState")>>))>>),
    Obj(<<P("type", S("final")), P("message", S("Found it."))>>),
    Obj(<<P("type", S("final")), P("message", S("Read this guide.")),
          P("relatedMaterials", Arr(<<Material("uuid-1", "React Hooks Guide", "url")>>))>>),
    Obj(<<P("type", S("final")), P("message", Str(<<>>)),
          P("relatedMaterials", Arr(<<>>))>>),
    Obj(<<P("type", S("final")), P("message", Num(0)),
          P("relatedMaterials", Null), P("suggestedActions", S("x"))>>),
    ToolCall("search_materials",
             Obj(<<P("query", S("React hooks")), P("limit", Num(5))>>)),
    ToolCall("search_materials",
             Obj(<<P("query", S("TypeScript")), P("limit", Num(1))>>)),
    ToolCall("search_materials", Obj(<<P("query", S("React"))>>)),
    Obj(<<P("type", S("tool_call")), P("tool", S("search_materials"))>>),
    ToolCall("request_material_addition",
             Obj(<<P("topic", S("SolidJS")), P("user_context", S("reactive"))>>)),
    ToolCall("delete_everything", Obj(<<>>)),
    Obj(<<P("type", S("tool_call"))>>),
    Obj(<<P("type", S("other")), P("message", S("hello"))>>),
    Obj(<<P("foo", Num(1))>>),
    S("just a JSON string"),
    Arr(<<Num(1)>>) }

FinalText == Stringify(Obj(<<P("type", S("final")), P("message", S("wrapped"))>>))

\* replies that are not the bare JSON of a decision
OddTexts ==
  { <<"This", WS, "is", WS, "not", WS, "valid", WS, "JSON">>,
    <<THINK_OPEN, "reasoning", WS, "{", "}", THINK_CLOSE, WS>> \o FinalText,
    <<"~~~json", WS>> \o FinalText \o <<WS, "~~~">>,
    <<THINK_OPEN, "never", WS, "closed">>,
    <<THINK_OPEN, "reasoning", THINK_CLOSE, WS, "Sorry">>,
    <<"use", WS, "{", "curly", "}", WS, "braces">>,
    <<WS, "null", WS>>,
    <<WS>> }

RawAtoms == {"{", "}", "null", "prose"}

\* every text of at most n atoms of RawAtoms
TextsUpTo(n) == UNION {[1..m -> RawAtoms] : m \in 0..n}

\* message.content of the completion: a text, or null when the model sent none
RawReplies ==
  {Str(Stringify(d)) : d \in DecisionObjects}
  \cup {Str(t) : t \in OddTexts}
  \cup {Str(t) : t \in TextsUpTo(MaxRawLen)}
  \cup {Null}

LlmErrors ==
  { Err("Error", S("HF API timeout"), Undefined),
    Err("Error", S("Too many requests"), Obj(<<P("error", S("rate limit"))>>)) }

StoreErrors == { Err("Error", S("Database connection failed"), Undefined) }

EmbedErrors == { Err("Error", S("Embedding model failed to load"), Undefined) }

Node(id, name, type) ==
  Obj(<<P("id", S(id)), P("name", S(name)), P("type", S(type))>>)

Record(id, name, type, embedding) ==
  [node |-> Node(id, name, type), embedding |-> embedding]

\* what the read of the embedded nodes may return
StoreContents ==
  { <<>>,
    <<Record("uuid-1", "React Hooks Guide", "URL", <<1, 0>>)>>,
    <<Record("uuid-1", "React Hooks Guide", "URL", <<1, 0>>),
      Record("uuid-2", "TypeScript", "Skill", <<0, 1>>),
      Record("uuid-3", "Hooks", "Skill", <<1, 0>>)>> }

QueryEmbeddings == { <<1, 0>>, <<0, 1>>, <<-1, 1>> }

Delays == 0..MaxDelay

(***************************************************************************)
(* chatbotSearch (service.js:327) and searchNodesBySimilarity: values      *)
(***************************************************************************)
NoSearchResponse ==
  [outcome |-> "none", status |-> 0, error |-> Undefined, message |-> Undefined,
   results |-> Undefined, query |-> Undefined, note |-> Undefined,
   timestamp |-> Undefined]

\* !query || typeof query !== "string"
InvalidQuery(query) ==
  \/ ~Truthy(query)
  \/ query.k # "str"

\* res.status(400).json(...) of chatbotSearch
SearchBadRequest ==
  [NoSearchResponse EXCEPT !.outcome = "json", !.status = 400,
                           !.error = S("Query is required and must be a string")]

\* res.status(500).json(...) of the catch block of chatbotSearch
SearchFailed(err) ==
  [NoSearchResponse EXCEPT !.outcome = "json", !.status = 500,
                           !.error = S("Search failed"), !.message = err.message]

\* searchNodesBySimilarity rejects with err
SearchThrown(err) ==
  [NoSearchResponse EXCEPT !.outcome = "thrown", !.error = Str(<<err.name>>),
                           !.message = err.message]

SEARCH_NOTE ==
  S("No embeddings found. Run 'npm run generate-embeddings' to populate embeddings.")

\* the limit without its default
LimitOrDefault_noDefault(limit) == limit

\* limit = 5 of the destructuring and of the parameter list: for undefined only
LimitOrDefault(limit) == IF limit.k = "undefined" THEN Num(DEFAULT_LIMIT) ELSE limit

\* the empty answer without its note
SearchEmpty_noNote(kind, query, time) ==
  IF kind = "chatbotSearch"
  THEN [NoSearchResponse EXCEPT !.outcome = "json", !.status = 200,
                                !.results = Arr(<<>>), !.query = query,
                                !.timestamp = ToISOString(time)]
  ELSE [NoSearchResponse EXCEPT !.outcome = "returned", !.results = Arr(<<>>)]

\* the answer of a search over no embedded node
SearchEmpty(kind, query, time) ==
  IF kind = "chatbotSearch"
  THEN [NoSearchResponse EXCEPT !.outcome = "json", !.status = 200,
                                !.results = Arr(<<>>), !.query = query,
                                !.timestamp = ToISOString(time), !.note = SEARCH_NOTE]
  ELSE [NoSearchResponse EXCEPT !.outcome = "returned",
                                !.results = Arr(<<>>), !.note = SEARCH_NOTE]

\* the answer of a search: the scored, sorted and truncated nodes
SearchFound(kind, query, scored, time) ==
  IF kind = "chatbotSearch"
  THEN [NoSearchResponse EXCEPT !.outcome = "json", !.status = 200,
                                !.results = ScoredJs(scored), !.query = query,
                                !.timestamp = ToISOString(time)]
  ELSE [NoSearchResponse EXCEPT !.outcome = "returned", !.results = ScoredJs(scored)]

\* what the read of the embedded nodes may return to a search: also more
\* nodes than the default limit
SearchStores ==
  StoreContents
  \cup { <<Record("uuid-1", "React Hooks Guide", "URL", <<1, 0>>),
           Record("uuid-2", "TypeScript", "Skill", <<0, 1>>),
           Record("uuid-3", "Hooks", "Skill", <<1, 0>>),
           Record("uuid-4", "CSS", "Skill", <<1, 1>>),
           Record("uuid-5", "Node", "Skill", <<0, 0>>),
           Record("uuid-6", "Rust", "Skill", <<0, 1>>)>> }

SearchQueries == {Undefined, Str(<<>>), Num(5), S("React hooks")}

SearchLimits == {Undefined, Null, Num(-1), Num(0), Num(1), Num(2), S("2")}

(***************************************************************************)
(* Concurrent chat requests: values                                        *)
(***************************************************************************)
Requests == {"r1", "r2"}

\* the local variables of one invocation of chatbotChat
NoRequest ==
  [pc |-> "idle", body |-> Body(Undefined, Undefined, Undefined, Undefined),
   calls |-> <<>>, decisions |-> <<>>, tool |-> Undefined, args |-> Undefined,
   records |-> <<>>, queryEmbedding |-> <<>>, output |-> Undefined,
   res |-> NoResponse, time |-> 0]

(***************************************************************************)
(* urlValidator.js: values                                                 *)
(***************************************************************************)
Checks == {"c1", "c2"}

\* what safetyCache.get gives for a domain that has no entry
NoEntry == [present |-> FALSE, safe |-> FALSE, timestamp |-> 0]

\* an invocation of validateUrlSafety that has not begun
NoCheck ==
  [pc |-> "idle", url |-> Undefined, domain |-> <<>>, fetched |-> FALSE,
   api |-> [kind |-> "none", ok |-> FALSE, json |-> "none", data |-> Undefined],
   result |-> [safe |-> FALSE, reason |-> Undefined, warnings |-> Undefined],
   ended |-> 0]

(***************************************************************************)
(* State                                                                   *)
(***************************************************************************)
VARIABLES
  pc,         \* where chatbotChat is: idle, llm1, read, embed, llm2, done
  body,       \* req.body
  res,        \* what res.status(..).json(..) was given
  trace,      \* the external calls and their outcomes, in order
  calls,      \* the messages of each chatCompletion call
  raws,       \* rawResponse of each completed LLM call
  decisions,  \* parsed, after each parseLlmResponse
  errors,     \* what the external calls that failed were rejected with
  tool,       \* tool and args of the first decision
  args,
  records,    \* result.records of the store read
  output,     \* toolOutput
  now,        \* the clock at its last reading by Date.now()
  driver,     \* the module's neo4j driver: "ready", or "undefined" when initDriver failed
  hf,         \* whether getHfClient has created the client
  spc,        \* where the search is: idle, read, embed, done
  skind,      \* which search runs: chatbotSearch or searchNodesBySimilarity
  sbody,      \* query and limit of the search
  sres,       \* what the search answered, returned or threw
  strace,     \* the session events of the search, in order
  srecords,   \* result.records of the search
  sembedding, \* queryEmbedding of the search
  reqs,       \* the chat requests handled concurrently, by request
  started,    \* the concurrent requests in the order they arrived
  safetyCache,\* urlValidator: domain -> { safe, timestamp }
  ucalls,     \* the invocations of validateUrlSafety, by invocation
  ulog,       \* what the invocations did, in order
  ubatch,     \* the invocation of validateMultipleUrls
  epc,        \* where main of the embedding generation is
  elacking,   \* how many nodes of the store have no embedding at the start
  enodes,     \* nodes, as fetchNodesWithoutEmbeddings returned them
  ei,         \* i of the batch loop
  ebatches,   \* the batches processed, in order
  ewrites,    \* the ids updateNodeEmbedding wrote, in order
  processedCount

\* the state of the chat request of the single-request specification
chatVars ==
  <<pc, body, res, trace, calls, raws, decisions, errors, tool, args, records, output>>

searchVars == <<spc, skind, sbody, sres, strace, srecords, sembedding>>

concVars == <<reqs, started>>

urlVars == <<safetyCache, ucalls, ulog, ubatch>>

embVars == <<epc, elacking, enodes, ei, ebatches, ewrites, processedCount>>

vars == <<chatVars, now, driver, hf, searchVars, concVars, urlVars, embVars>>

Init ==
  /\ pc = "idle"
  /\ body = Body(Undefined, Undefined, Undefined, Undefined)
  /\ res = NoResponse
  /\ trace = <<>>
  /\ calls = <<>>
  /\ raws = <<>>
  /\ decisions = <<>>
  /\ errors = <<>>
  /\ tool = Undefined
  /\ args = Undefined
  /\ records = <<>>
  /\ output = Undefined
  /\ now = 1
  /\ driver \in {"ready", "undefined"}
  /\ hf = FALSE
  /\ spc = "idle"
  /\ skind = "none"
  /\ sbody = [query |-> Undefined, limit |-> Undefined]
  /\ sres = NoSearchResponse
  /\ strace = <<>>
  /\ srecords = <<>>
  /\ sembedding = <<>>
  /\ reqs = [r \in Requests |-> NoRequest]
  /\ started = <<>>
  /\ safetyCache = <<>>
  /\ ucalls = [c \in Checks |-> NoCheck]
  /\ ulog = <<>>
  /\ ubatch = [state |-> "none", allSafe |-> FALSE, results |-> <<>>]
  /\ epc = "idle"
  /\ elacking = 0
  /\ enodes = <<>>
  /\ ei = 0
  /\ ebatches = <<>>
  /\ ewrites = <<>>
  /\ processedCount = 0

(***************************************************************************)
(* chatbotChat (service.js:638): the steps between its awaits              *)
(***************************************************************************)
\* the catch block: the turn ends with the 500 response
Fail(err, events) ==
  /\ res' = ErrorResponse(err)
  /\ trace' = trace \o events \o <<"respond">>
  /\ pc' = "done"

\* "Build the response" and res.json(response)
Respond(parsed, events) ==
  /\ res' = FinalResponse(parsed, body.sessionId, now')
  /\ trace' = trace \o events \o <<"respond">>
  /\ pc' = "done"

\* executeTool returned out: the messages are rebuilt with the tool result
\* and callHfChat is called again
Reinvoke(tl, ar, out, events) ==
  /\ output' = out
  /\ calls' = Append(calls,
                     buildMessages(body.message, body.conversationHistory,
                                   body.customInstructions, ToolResult(tl, ar, out)))
  /\ trace' = trace \o events \o <<"tool_ok", "llm_call">>
  /\ pc' = "llm2"

\* the request arrives: validation, buildMessages, the first callHfChat
ChatbotChat(b) ==
  /\ pc = "idle"
  /\ body' = b
  /\ IF InvalidMessage(b.message)
     THEN /\ res' = BadRequest
          /\ trace' = trace \o <<"respond">>
          /\ pc' = "done"
          /\ UNCHANGED <<calls, hf>>
     ELSE IF BuildThrows(b.conversationHistory)
     THEN /\ res' = ErrorResponse(TypeErr("Cannot read properties of null (reading 'role')"))
          /\ trace' = trace \o <<"respond">>
          /\ pc' = "done"
          /\ UNCHANGED <<calls, hf>>
     ELSE /\ calls' = <<buildMessages(b.message, b.conversationHistory,
                                      b.customInstructions, NoToolResult)>>
          /\ hf' = TRUE
          /\ trace' = trace \o <<"llm_call">>
          /\ pc' = "llm1"
          /\ UNCHANGED res
  /\ UNCHANGED <<raws, decisions, errors, tool, args, records, output, now, driver>>
  /\ UNCHANGED <<searchVars, concVars>>
  /\ UNCHANGED <<urlVars, embVars>>

\* whether the step after the first decision calls Date.now(): for the
\* session id of the response, or for the request id of a material request
ReadsClock(parsed) ==
  /\ ~IsNullish(parsed)
  /\ \/ ~StrictEqStr(Get(parsed, "type"), "tool_call")
     \/ StrictEqStr(Get(parsed, "tool"), "request_material_addition")

\* after the first completion: parse, then respond or start the tool
Decide(raw, d) ==
  /\ now' = IF ReadsClock(parseLlmResponse(raw)) THEN now + d ELSE now
  /\ raws' = Append(raws, raw)
  /\ LET parsed == parseLlmResponse(raw)
     IN  /\ decisions' = Append(decisions, parsed)
         /\ IF IsNullish(parsed)
            THEN \* parsed.type throws
                 /\ Fail(TypeErr("Cannot read properties of null (reading 'type')"),
                         <<"llm_ok">>)
                 /\ UNCHANGED <<calls, tool, args, output>>
            ELSE IF ~StrictEqStr(Get(parsed, "type"), "tool_call")
            THEN /\ Respond(parsed, <<"llm_ok">>)
                 /\ UNCHANGED <<calls, tool, args, output>>
            ELSE LET tl == Get(parsed, "tool")
                     ar == Get(parsed, "args")
                 IN  /\ tool' = tl
                     /\ args' = ar
                     /\ IF StrictEqStr(tl, "search_materials")
                        THEN IF IsNullish(ar)
                             THEN \* const { query, limit = 5 } = args throws
                                  /\ Fail(TypeErr("Cannot destructure property 'query'"),
                                          <<"llm_ok", "tool_call", "tool_fail">>)
                                  /\ UNCHANGED <<calls, output>>
                             ELSE IF driver = "undefined"
                             THEN \* driver.session() throws
                                  /\ Fail(TypeErr("Cannot read properties of undefined (reading 'session')"),
                                          <<"llm_ok", "tool_call", "tool_fail">>)
                                  /\ UNCHANGED <<calls, output>>
                             ELSE /\ trace' = trace \o <<"llm_ok", "tool_call", "session_open">>
                                  /\ pc' = "read"
                                  /\ UNCHANGED <<res, calls, output>>
                        ELSE IF StrictEqStr(tl, "request_material_addition")
                        THEN /\ Reinvoke(tl, ar, MaterialRequestOutput(now'),
                                         <<"llm_ok", "tool_call">>)
                             /\ UNCHANGED res
                        ELSE /\ Reinvoke(tl, ar, UnknownToolOutput(tl),
                                         <<"llm_ok", "tool_call">>)
                             /\ UNCHANGED res
  /\ UNCHANGED <<body, errors, records, driver, hf>>
  /\ UNCHANGED <<searchVars, concVars>>
  /\ UNCHANGED <<urlVars, embVars>>

\* the first completion arrives
Llm1Reply(raw, d) ==
  /\ pc = "llm1"
  /\ Decide(raw, d)

\* a failed first call that is sent again
Llm1Fail_retry(err) ==
  /\ pc = "llm1"
  /\ errors' = Append(errors, err)
  /\ calls' = Append(calls, calls[Len(calls)])
  /\ trace' = trace \o <<"llm_fail", "llm_call">>
  /\ UNCHANGED <<pc, body, res, raws, decisions, tool, args, records, output, now, driver, hf>>
  /\ UNCHANGED <<searchVars, concVars>>
  /\ UNCHANGED <<urlVars, embVars>>

\* the first chatCompletion rejects: callHfChat rethrows
Llm1Fail(err) ==
  /\ pc = "llm1"
  /\ errors' = Append(errors, err)
  /\ Fail(err, <<"llm_fail">>)
  /\ UNCHANGED <<body, calls, raws, decisions, tool, args, records, output, now, driver, hf>>
  /\ UNCHANGED <<searchVars, concVars>>
  /\ UNCHANGED <<urlVars, embVars>>

\* session.executeRead resolves
StoreReadOk(recs) ==
  /\ pc = "read"
  /\ records' = recs
  /\ IF Len(recs) = 0
     THEN /\ Reinvoke(tool, args, NoEmbeddings, <<"session_close">>)
          /\ UNCHANGED res
     ELSE /\ pc' = "embed"
          /\ UNCHANGED <<res, trace, calls, output>>
  /\ UNCHANGED <<body, raws, decisions, errors, tool, args, now, driver, hf>>
  /\ UNCHANGED <<searchVars, concVars>>
  /\ UNCHANGED <<urlVars, embVars>>

\* a store failure that is swallowed and reported to the LLM as a tool result
StoreReadFail_swallow(err) ==
  /\ pc = "read"
  /\ errors' = Append(errors, err)
  /\ output' = Obj(<<P("error", err.message)>>)
  /\ calls' = Append(calls,
                     buildMessages(body.message, body.conversationHistory,
                                   body.customInstructions,
                                   ToolResult(tool, args, Obj(<<P("error", err.message)>>))))
  /\ trace' = trace \o <<"session_close", "tool_fail", "llm_call">>
  /\ pc' = "llm2"
  /\ UNCHANGED <<body, res, raws, decisions, tool, args, records, now, driver, hf>>
  /\ UNCHANGED <<searchVars, concVars>>
  /\ UNCHANGED <<urlVars, embVars>>

\* session.executeRead rejects: finally closes the session
StoreReadFail(err) ==
  /\ pc = "read"
  /\ errors' = Append(errors, err)
  /\ Fail(err, <<"session_close", "tool_fail">>)
  /\ UNCHANGED <<body, calls, raws, decisions, tool, args, records, output, now, driver, hf>>
  /\ UNCHANGED <<searchVars, concVars>>
  /\ UNCHANGED <<urlVars, embVars>>

\* the query embedding arrives: score, sort, slice, close the session
EmbedOk(queryEmbedding) ==
  /\ pc = "embed"
  /\ Reinvoke(tool, args, SearchOutput(records, queryEmbedding, LimitOf(args)),
              <<"session_close">>)
  /\ UNCHANGED <<body, res, raws, decisions, errors, tool, args, records, now, driver, hf>>
  /\ UNCHANGED <<searchVars, concVars>>
  /\ UNCHANGED <<urlVars, embVars>>

\* pipeline(...) or extractor(...) rejects: finally closes the session
EmbedFail(err) ==
  /\ pc = "embed"
  /\ errors' = Append(errors, err)
  /\ Fail(err, <<"session_close", "tool_fail">>)
  /\ UNCHANGED <<body, calls, raws, decisions, tool, args, records, output, now, driver, hf>>
  /\ UNCHANGED <<searchVars, concVars>>
  /\ UNCHANGED <<urlVars, embVars>>

\* a second completion handled like the first: a tool call starts another round
Llm2Reply_loop(raw, d) ==
  /\ pc = "llm2"
  /\ Decide(raw, d)

\* the second completion arrives: parse and respond, whatever the type
Llm2Reply(raw, d) ==
  /\ pc = "llm2"
  /\ now' = IF IsNullish(parseLlmResponse(raw)) THEN now ELSE now + d
  /\ raws' = Append(raws, raw)
  /\ LET parsed == parseLlmResponse(raw)
     IN  /\ decisions' = Append(decisions, parsed)
         /\ IF IsNullish(parsed)
            THEN Fail(TypeErr("Cannot read properties of null (reading 'type')"),
                      <<"llm_ok">>)
            ELSE Respond(parsed, <<"llm_ok">>)
  /\ UNCHANGED <<body, calls, errors, tool, args, records, output, driver, hf>>
  /\ UNCHANGED <<searchVars, concVars>>
  /\ UNCHANGED <<urlVars, embVars>>

\* the second chatCompletion rejects
Llm2Fail(err) ==
  /\ pc = "llm2"
  /\ errors' = Append(errors, err)
  /\ Fail(err, <<"llm_fail">>)
  /\ UNCHANGED <<body, calls, raws, decisions, tool, args, records, output, now, driver, hf>>
  /\ UNCHANGED <<searchVars, concVars>>
  /\ UNCHANGED <<urlVars, embVars>>

Next ==
  \/ \E i \in 1..Len(Bodies) : ChatbotChat(Bodies[i])
  \/ \E raw \in RawReplies, d \in Delays : Llm1Reply(raw, d)
  \/ \E err \in LlmErrors : Llm1Fail(err)
  \/ \E recs \in StoreContents : StoreReadOk(recs)
  \/ \E err \in StoreErrors : StoreReadFail(err)
  \/ \E q \in QueryEmbeddings : EmbedOk(q)
  \/ \E err \in EmbedErrors : EmbedFail(err)
  \/ \E raw \in RawReplies, d \in Delays : Llm2Reply(raw, d)
  \/ \E err \in LlmErrors : Llm2Fail(err)

Spec == Init /\ [][Next]_vars

(***************************************************************************)
(* chatbotSearch (service.js:327) and searchNodesBySimilarity: the steps   *)
(***************************************************************************)
\* the search ends with answer r after the session events evs
SearchEnds(r, evs) ==
  /\ sres' = r
  /\ strace' = strace \o evs
  /\ spc' = "done"

\* POST /chatbot/search arrives: validation, then driver.session() and the read
ChatbotSearch(query, limit) ==
  /\ spc = "idle"
  /\ skind' = "chatbotSearch"
  /\ sbody' = [query |-> query, limit |-> limit]
  /\ IF InvalidQuery(query)
     THEN SearchEnds(SearchBadRequest, <<>>)
     ELSE IF driver = "undefined"
     THEN SearchEnds(SearchFailed(TypeErr("Cannot read properties of undefined (reading 'session')")),
                     <<>>)
     ELSE /\ strace' = strace \o <<"session_open">>
          /\ spc' = "read"
          /\ UNCHANGED sres
  /\ UNCHANGED <<srecords, sembedding, chatVars, now, driver, hf, concVars>>
  /\ UNCHANGED <<urlVars, embVars>>

\* searchNodesBySimilarity(driver, query, limit) is called
SearchNodesBySimilarity(query, limit) ==
  /\ spc = "idle"
  /\ skind' = "searchNodesBySimilarity"
  /\ sbody' = [query |-> query, limit |-> limit]
  /\ IF driver = "undefined"
     THEN SearchEnds(SearchThrown(TypeErr("Cannot read properties of undefined (reading 'session')")),
                     <<>>)
     ELSE /\ strace' = strace \o <<"session_open">>
          /\ spc' = "read"
          /\ UNCHANGED sres
  /\ UNCHANGED <<srecords, sembedding, chatVars, now, driver, hf, concVars>>
  /\ UNCHANGED <<urlVars, embVars>>

\* session.executeRead resolves. chatbotSearch closes the session right
\* after the read; searchNodesBySimilarity closes it in finally, on return
SearchReadOk(recs, d) ==
  /\ spc = "read"
  /\ srecords' = recs
  /\ IF Len(recs) = 0
     THEN /\ now' = IF skind = "chatbotSearch" THEN now + d ELSE now
          /\ SearchEnds(SearchEmpty(skind, sbody.query, now'),
                        <<"read_ok", "session_close">>)
     ELSE /\ strace' = IF skind = "chatbotSearch"
                       THEN strace \o <<"read_ok", "session_close", "embed_call">>
                       ELSE strace \o <<"read_ok", "embed_call">>
          /\ spc' = "embed"
          /\ UNCHANGED <<sres, now>>
  /\ UNCHANGED <<skind, sbody, sembedding, chatVars, driver, hf, concVars>>
  /\ UNCHANGED <<urlVars, embVars>>

\* session.executeRead rejects: the catch block of chatbotSearch answers 500
\* (its session.close() is after the await, not in a finally);
\* searchNodesBySimilarity closes in finally and rejects
SearchReadFail(err) ==
  /\ spc = "read"
  /\ IF skind = "chatbotSearch"
     THEN SearchEnds(SearchFailed(err), <<>>)
     ELSE SearchEnds(SearchThrown(err), <<"session_close">>)
  /\ UNCHANGED <<skind, sbody, srecords, sembedding, chatVars, now, driver, hf, concVars>>
  /\ UNCHANGED <<urlVars, embVars>>

\* the query embedding arrives: score, sort, slice, answer
SearchEmbedOk(queryEmbedding, d) ==
  /\ spc = "embed"
  /\ sembedding' = queryEmbedding
  /\ now' = IF skind = "chatbotSearch" THEN now + d ELSE now
  /\ SearchEnds(SearchFound(skind, sbody.query,
                            Scored(srecords, queryEmbedding, LimitOrDefault(sbody.limit)),
                            now'),
                IF skind = "chatbotSearch" THEN <<>> ELSE <<"session_close">>)
  /\ UNCHANGED <<skind, sbody, srecords, chatVars, driver, hf, concVars>>
  /\ UNCHANGED <<urlVars, embVars>>

\* pipeline(...) or extractor(...) rejects
SearchEmbedFail(err) ==
  /\ spc = "embed"
  /\ IF skind = "chatbotSearch"
     THEN SearchEnds(SearchFailed(err), <<>>)
     ELSE SearchEnds(SearchThrown(err), <<"session_close">>)
  /\ UNCHANGED <<skind, sbody, srecords, sembedding, chatVars, now, driver, hf, concVars>>
  /\ UNCHANGED <<urlVars, embVars>>

SearchNext ==
  \/ \E q \in SearchQueries, l \in SearchLimits : ChatbotSearch(q, l)
  \/ \E q \in SearchQueries, l \in SearchLimits : SearchNodesBySimilarity(q, l)
  \/ \E recs \in SearchStores, d \in Delays : SearchReadOk(recs, d)
  \/ \E err \in StoreErrors : SearchReadFail(err)
  \/ \E q \in QueryEmbeddings, d \in Delays : SearchEmbedOk(q, d)
  \/ \E err \in EmbedErrors : SearchEmbedFail(err)

SearchSpec == Init /\ [][SearchNext]_vars

(***************************************************************************)
(* chatbotChat (service.js:638) invoked for several requests at a time:    *)
(* the steps of one invocation run between its awaits, and the steps of    *)
(* different invocations interleave                                        *)
(***************************************************************************)
ConcBodies == {Bodies[9], Bodies[10]}

ConcReplies ==
  { Str(Stringify(Obj(<<P("type", S("final")), P("message", S("Found it."))>>))),
    Str(Stringify(ToolCall("search_materials",
                           Obj(<<P("query", S("TypeScript")), P("limit", Num(1))>>)))),
    Str(Stringify(ToolCall("request_material_addition",
                           Obj(<<P("topic", S("SolidJS"))>>)))) }

ConcStores == {<<>>, <<Record("uuid-1", "React Hooks Guide", "URL", <<1, 0>>)>>}

ConcErrors == {Err("Error", S("HF API timeout"), Undefined)}

ConcEmbeddings == {<<0, 1>>}

\* the request body read from a module-level variable that the request
\* that arrived last has overwritten
BodyOf_lastArrived(r) == reqs[started[Len(started)]].body

\* message, sessionId, conversationHistory, customInstructions: constants of
\* the invocation, destructured from its own req.body
BodyOf(r) == reqs[r].body

\* res.json(response) of invocation r
RespondReq(r, parsed, time) ==
  [reqs[r] EXCEPT !.pc = "done",
                  !.res = FinalResponse(parsed, BodyOf(r).sessionId, time),
                  !.time = time]

\* the catch block of invocation r
FailReq(r, err) == [reqs[r] EXCEPT !.pc = "done", !.res = ErrorResponse(err)]

\* invocation r rebuilds its messages with the tool result and calls the LLM again
ReinvokeReq(r, tl, ar, out) ==
  [reqs[r] EXCEPT !.pc = "llm2", !.tool = tl, !.args = ar, !.output = out,
                  !.calls = Append(@, buildMessages(BodyOf(r).message,
                                                    BodyOf(r).conversationHistory,
                                                    BodyOf(r).customInstructions,
                                                    ToolResult(tl, ar, out)))]

\* request r arrives
ConcStart(r, b) ==
  /\ reqs[r].pc = "idle"
  /\ started' = Append(started, r)
  /\ IF InvalidMessage(b.message)
     THEN /\ reqs' = [reqs EXCEPT ![r] = [@ EXCEPT !.pc = "done", !.body = b,
                                                   !.res = BadRequest]]
          /\ UNCHANGED hf
     ELSE IF BuildThrows(b.conversationHistory)
     THEN /\ reqs' = [reqs EXCEPT ![r] =
                        [@ EXCEPT !.pc = "done", !.body = b,
                                  !.res = ErrorResponse(TypeErr("Cannot read properties of null (reading 'role')"))]]
          /\ UNCHANGED hf
     ELSE /\ reqs' = [reqs EXCEPT ![r] =
                        [@ EXCEPT !.pc = "llm1", !.body = b,
                                  !.calls = <<buildMessages(b.message, b.conversationHistory,
                                                            b.customInstructions, NoToolResult)>>]]
          /\ hf' = TRUE
  /\ UNCHANGED <<chatVars, now, driver, searchVars>>
  /\ UNCHANGED <<urlVars, embVars>>

\* the first completion of request r arrives
ConcLlm1Reply(r, raw, d) ==
  /\ reqs[r].pc = "llm1"
  /\ LET parsed == parseLlmResponse(raw)
         tl == Get(parsed, "tool")
         ar == Get(parsed, "args")
         q == [reqs[r] EXCEPT !.decisions = Append(@, parsed)]
     IN  /\ now' = IF ReadsClock(parsed) THEN now + d ELSE now
         /\ reqs' = [reqs EXCEPT ![r] =
              IF IsNullish(parsed)
              THEN [FailReq(r, TypeErr("Cannot read properties of null (reading 'type')"))
                      EXCEPT !.decisions = q.decisions]
              ELSE IF ~StrictEqStr(Get(parsed, "type"), "tool_call")
              THEN [RespondReq(r, parsed, now') EXCEPT !.decisions = q.decisions]
              ELSE IF StrictEqStr(tl, "search_materials")
              THEN IF IsNullish(ar)
                   THEN [FailReq(r, TypeErr("Cannot destructure property 'query'"))
                           EXCEPT !.decisions = q.decisions, !.tool = tl, !.args = ar]
                   ELSE IF driver = "undefined"
                   THEN [FailReq(r, TypeErr("Cannot read properties of undefined (reading 'session')"))
                           EXCEPT !.decisions = q.decisions, !.tool = tl, !.args = ar]
                   ELSE [q EXCEPT !.pc = "read", !.tool = tl, !.args = ar]
              ELSE IF StrictEqStr(tl, "request_material_addition")
              THEN [ReinvokeReq(r, tl, ar, MaterialRequestOutput(now'))
                      EXCEPT !.decisions = q.decisions, !.time = now']
              ELSE [ReinvokeReq(r, tl, ar, UnknownToolOutput(tl))
                      EXCEPT !.decisions = q.decisions]]
  /\ UNCHANGED <<chatVars, driver, hf, searchVars, started>>
  /\ UNCHANGED <<urlVars, embVars>>

\* a chatCompletion of request r rejects, the first or the second
ConcLlmFail(r, err) ==
  /\ reqs[r].pc \in {"llm1", "llm2"}
  /\ reqs' = [reqs EXCEPT ![r] = FailReq(r, err)]
  /\ UNCHANGED <<chatVars, now, driver, hf, searchVars, started>>
  /\ UNCHANGED <<urlVars, embVars>>

\* session.executeRead of request r resolves
ConcStoreReadOk(r, recs) ==
  /\ reqs[r].pc = "read"
  /\ reqs' = [reqs EXCEPT ![r] =
       IF Len(recs) = 0
       THEN [ReinvokeReq(r, reqs[r].tool, reqs[r].args, NoEmbeddings) EXCEPT !.records = recs]
       ELSE [@ EXCEPT !.pc = "embed", !.records = recs]]
  /\ UNCHANGED <<chatVars, now, driver, hf, searchVars, started>>
  /\ UNCHANGED <<urlVars, embVars>>

\* the query embedding of request r arrives
ConcEmbedOk(r, queryEmbedding) ==
  /\ reqs[r].pc = "embed"
  /\ reqs' = [reqs EXCEPT ![r] =
       [ReinvokeReq(r, reqs[r].tool, reqs[r].args,
                    SearchOutput(reqs[r].records, queryEmbedding, LimitOf(reqs[r].args)))
          EXCEPT !.queryEmbedding = queryEmbedding]]
  /\ UNCHANGED <<chatVars, now, driver, hf, searchVars, started>>
  /\ UNCHANGED <<urlVars, embVars>>

\* the store read or the embedding step of request r rejects
ConcToolFail(r, err) ==
  /\ reqs[r].pc \in {"read", "embed"}
  /\ reqs' = [reqs EXCEPT ![r] = FailReq(r, err)]
  /\ UNCHANGED <<chatVars, now, driver, hf, searchVars, started>>
  /\ UNCHANGED <<urlVars, embVars>>

\* the second completion of request r arrives
ConcLlm2Reply(r, raw, d) ==
  /\ reqs[r].pc = "llm2"
  /\ LET parsed == parseLlmResponse(raw)
     IN  /\ now' = IF IsNullish(parsed) THEN now ELSE now + d
         /\ reqs' = [reqs EXCEPT ![r] =
              IF IsNullish(parsed)
              THEN [FailReq(r, TypeErr("Cannot read properties of null (reading 'type')"))
                      EXCEPT !.decisions = Append(@, parsed)]
              ELSE [RespondReq(r, parsed, now') EXCEPT !.decisions = Append(@, parsed)]]
  /\ UNCHANGED <<chatVars, driver, hf, searchVars, started>>
  /\ UNCHANGED <<urlVars, embVars>>

ConcNext ==
  \E r \in Requests :
    \/ \E b \in ConcBodies : ConcStart(r, b)
    \/ \E raw \in ConcReplies, d \in Delays : ConcLlm1Reply(r, raw, d)
    \/ \E err \in ConcErrors : ConcLlmFail(r, err)
    \/ \E recs \in ConcStores : ConcStoreReadOk(r, recs)
    \/ \E q \in ConcEmbeddings : ConcEmbedOk(r, q)
    \/ \E err \in StoreErrors : ConcToolFail(r, err)
    \/ \E raw \in ConcReplies, d \in Delays : ConcLlm2Reply(r, raw, d)

ConcSpec == Init /\ [][ConcNext]_vars

(***************************************************************************)
(* urlValidator.js: validateUrlFormat, isDomainTrusted, the safety cache   *)
(* and checkExternalSafety.  A URL is a text whose atoms are the scheme    *)
(* with its slashes, the labels of the host, ".", "/", "//", ":" and the   *)
(* path words.                                                             *)
(***************************************************************************)
\* entries of DEFAULT_TRUSTED_DOMAINS
DEFAULT_TRUSTED_DOMAINS ==
  {<<"github", ".", "com">>, <<"developer", ".", "mozilla", ".", "org">>}

\* 24 * 60 * 60 * 1000
CACHE_TTL_MS == 86400000

\* String.prototype.toLowerCase, atom by atom
toLowerCase(t) ==
  LET LowerAtom(a) ==
        CASE a = "GitHub" -> "github"
          [] a = "EXAMPLE" -> "example"
          [] a = "OK" -> "ok"
          [] a = "Clean" -> "clean"
          [] OTHER -> a
  IN [i \in 1..Len(t) |-> LowerAtom(t[i])]

RECURSIVE TextLength(_)
\* t.length: the characters of the atoms, as far as a comparison with 3 goes
TextLength(t) ==
  LET AtomLength(a) ==
        CASE a \in {".", "a", "0", "1", "/", ":"} -> 1
          [] a \in {"10", "20", "//"} -> 2
          [] OTHER -> 3
  IN IF t = <<>> THEN 0 ELSE AtomLength(Head(t)) + TextLength(Tail(t))

startsWith(t, prefix) ==
  Len(t) >= Len(prefix) /\ SubSeq(t, 1, Len(prefix)) = prefix

RECURSIVE HostOf(_)
\* new URL(u).hostname of the text after the scheme: up to the port or path
HostOf(t) ==
  IF t = <<>> \/ Head(t) \in {"/", "//", ":", "?", "#"} THEN <<>>
  ELSE <<Head(t)>> \o HostOf(Tail(t))

isPrivateIPRange(domain) ==
  LET secondOctet ==
        IF Len(domain) >= 3 /\ IsNumAtom(domain[3]) THEN AtomNum(domain[3]) ELSE -1
  IN \/ startsWith(domain, <<"127", ".">>)
     \/ startsWith(domain, <<"10", ".">>)
     \/ startsWith(domain, <<"192", ".", "168", ".">>)
     \/ /\ startsWith(domain, <<"172", ".">>)
        /\ secondOctet >= 16
        /\ secondOctet <= 31

\* the em dash (U+2014) of the messages
EM_DASH == "[U+2014]"

validateUrlFormat(url) ==
  LET Invalid(reason) == [valid |-> FALSE, domain |-> <<>>, reason |-> reason] IN
  IF IsNullish(url) THEN Invalid(<<"URL is required">>)
  ELSE IF url.k # "str" THEN Invalid(<<"URL must be a string">>)
  ELSE LET trimmedUrl == Trim(url.v) IN
    IF trimmedUrl = <<>> THEN Invalid(<<"URL cannot be empty">>)
    ELSE IF ~startsWith(trimmedUrl, <<"http://">>) /\ ~startsWith(trimmedUrl, <<"https://">>)
      THEN Invalid(<<"URL must start with http:// or https://">>)
    ELSE LET afterProtocol == Tail(trimmedUrl) IN
      IF \E i \in 1..Len(afterProtocol) : afterProtocol[i] = "//"
        THEN Invalid(<<"URL contains consecutive slashes ", EM_DASH,
                       " please verify the URL format">>)
      ELSE IF HostOf(afterProtocol) = <<>> THEN Invalid(<<"Invalid URL format">>)
      ELSE LET domain == toLowerCase(HostOf(afterProtocol)) IN
        IF TextLength(domain) < 3 THEN Invalid(<<"Invalid domain">>)
        ELSE IF domain = <<"localhost">> \/ domain = <<"0", ".", "0", ".", "0", ".", "0">>
          THEN Invalid(<<"Local and private URLs are not allowed">>)
        ELSE IF isPrivateIPRange(domain)
          THEN Invalid(<<"Local and private URLs are not allowed">>)
        ELSE [valid |-> TRUE, domain |-> domain, reason |-> <<>>]

\* only the exact match of the list
isDomainTrusted_exact(domain) == toLowerCase(domain) \in DEFAULT_TRUSTED_DOMAINS

isDomainTrusted(domain) ==
  LET lowerDomain == toLowerCase(domain)
      endsWith(t, suffix) ==
        Len(t) >= Len(suffix) /\ SubSeq(t, Len(t) - Len(suffix) + 1, Len(t)) = suffix
  IN \E trusted \in DEFAULT_TRUSTED_DOMAINS :
       \/ lowerDomain = trusted
       \/ endsWith(lowerDomain, <<".">> \o trusted)

\* an entry of exactly the TTL counts as expired
isExpired_atTtl(cached, t) == t - cached.timestamp >= CACHE_TTL_MS

\* an entry never expires
isExpired_never(cached, t) == FALSE

\* Date.now() - cached.timestamp > CACHE_TTL_MS
isExpired(cached, t) == t - cached.timestamp > CACHE_TTL_MS

\* getCachedResult at time t: the entry it returns (NoEntry for null) and the
\* cache it leaves, an expired entry being deleted
getCachedResult(cache, domain, t) ==
  IF domain \notin DOMAIN cache THEN [cached |-> NoEntry, cache |-> cache]
  ELSE IF isExpired(cache[domain], t)
    THEN [cached |-> NoEntry, cache |-> [d \in DOMAIN cache \ {domain} |-> cache[d]]]
  ELSE [cached |-> cache[domain], cache |-> cache]

\* setCachedResult at time t
setCachedResult(cache, domain, safe, t) ==
  [d \in DOMAIN cache \cup {domain} |->
     IF d = domain THEN [present |-> TRUE, safe |-> safe, timestamp |-> t]
     ELSE cache[d]]

\* What fetch and response.json() give checkExternalSafety: a rejection, a
\* response that is not ok, a body that is not JSON, and parsed bodies.
ApiReplies ==
  LET Response(ok, json, data) ==
        [kind |-> "response", ok |-> ok, json |-> json, data |-> data]
  IN { [kind |-> "rejected", ok |-> FALSE, json |-> "none", data |-> Undefined],
       Response(FALSE, "none", Undefined),
       Response(TRUE, "throws", Undefined),
       Response(TRUE, "value",
                Obj(<<P("query_status", S("ok")), P("threat", S("malware_download"))>>)),
       Response(TRUE, "value",
                Obj(<<P("query_status", S("OK")), P("threat", S("Clean"))>>)),
       Response(TRUE, "value", Obj(<<P("query_status", S("no_results"))>>)) }

\* a response that is not ok is taken for a clean answer
checkExternalSafety_noFlag(reply) ==
  IF reply.kind = "rejected" \/ (reply.ok /\ reply.json = "throws")
    THEN [safe |-> TRUE, reason |-> Undefined, failedCheck |-> TRUE]
  ELSE IF ~reply.ok THEN [safe |-> TRUE, reason |-> Undefined, failedCheck |-> FALSE]
  ELSE IF /\ toLowerCase(ToText(OrElse(Get(reply.data, "query_status"), Str(<<>>)))) = <<"ok">>
          /\ toLowerCase(ToText(OrElse(Get(reply.data, "threat"), Str(<<>>)))) \notin {<<>>, <<"clean">>}
    THEN [safe |-> FALSE, reason |-> Str(<<"URL flagged by security service">>),
          failedCheck |-> FALSE]
  ELSE [safe |-> TRUE, reason |-> Undefined, failedCheck |-> FALSE]

checkExternalSafety(reply) ==
  IF reply.kind = "rejected"
    THEN [safe |-> TRUE, reason |-> Undefined, failedCheck |-> TRUE]
  ELSE IF ~reply.ok
    THEN [safe |-> TRUE, reason |-> Undefined, failedCheck |-> TRUE]
  ELSE IF reply.json = "throws" \/ IsNullish(reply.data)
    THEN [safe |-> TRUE, reason |-> Undefined, failedCheck |-> TRUE]
  ELSE LET queryStatus ==
             toLowerCase(ToText(OrElse(Get(reply.data, "query_status"), Str(<<>>))))
           threat ==
             toLowerCase(ToText(OrElse(Get(reply.data, "threat"), Str(<<>>))))
       IN IF queryStatus = <<"ok">> /\ threat # <<>> /\ threat # <<"clean">>
          THEN [safe |-> FALSE, reason |-> Str(<<"URL flagged by security service">>),
                failedCheck |-> FALSE]
          ELSE [safe |-> TRUE, reason |-> Undefined, failedCheck |-> FALSE]

UrlInputs ==
  { Str(<<"https://", "github", ".", "com", "/", "x">>),
    Str(<<"https://", "www", ".", "GitHub", ".", "com">>),
    Str(<<"https://", "evilgithub", ".", "com">>),
    Str(<<"https://", "example", ".", "com", "/", "a">>),
    Str(<<"http://", "EXAMPLE", ".", "com", ":", "8080", "/", "b">>),
    Str(<<"https://", "172", ".", "20", ".", "0", ".", "1">>),
    Str(<<"ftp://", "example", ".", "com">>),
    Str(<<"https://", "example", ".", "com", "//", "a">>),
    Null }

\* the arrays validateMultipleUrls is called with
UrlArrays ==
  { <<>>,
    << Str(<<"https://", "example", ".", "com", "/", "a">>),
       Str(<<"http://", "EXAMPLE", ".", "com", ":", "8080", "/", "b">>) >>,
    << Str(<<"https://", "github", ".", "com", "/", "x">>),
       Str(<<"https://", "evilgithub", ".", "com">>) >>,
    << Str(<<"https://", "www", ".", "GitHub", ".", "com">>),
       Str(<<"https://", "localhost">>) >> }

\* the most single ticks, and the most whole TTLs, the clock advances
MaxSkew == 1

MaxDays == 1

(***************************************************************************)
(* urlValidator.js: validateUrlSafety and validateMultipleUrls             *)
(***************************************************************************)
\* validateUrlSafety(url) at time t up to its return or its await of
\* checkExternalSafety: the invocation, the cache after it, and its events
\* (its start, and its end if it returned)
Begin(c, url, cache, t) ==
  LET formatResult == validateUrlFormat(url)
      looked == getCachedResult(cache, formatResult.domain, t)
      Return(safe, reason) ==
        [NoCheck EXCEPT !.pc = "done", !.url = url, !.domain = formatResult.domain,
                        !.result = [safe |-> safe, reason |-> reason,
                                    warnings |-> Undefined],
                        !.ended = t]
  IN IF ~formatResult.valid
       THEN [call |-> Return(FALSE, Str(formatResult.reason)), cache |-> cache,
             events |-> <<[c |-> c, ev |-> "start"], [c |-> c, ev |-> "end"]>>]
     ELSE IF isDomainTrusted(formatResult.domain)
       THEN [call |-> Return(TRUE, Undefined), cache |-> cache,
             events |-> <<[c |-> c, ev |-> "start"], [c |-> c, ev |-> "end"]>>]
     ELSE IF looked.cached.present
       THEN [call |-> IF looked.cached.safe THEN Return(TRUE, Undefined)
                      ELSE Return(FALSE, Str(<<"Domain previously flagged as unsafe">>)),
             cache |-> looked.cache,
             events |-> <<[c |-> c, ev |-> "start"], [c |-> c, ev |-> "end"]>>]
     ELSE [call |-> [NoCheck EXCEPT !.pc = "fetching", !.url = url,
                                    !.domain = formatResult.domain,
                                    !.fetched = TRUE],
           cache |-> looked.cache,
           events |-> <<[c |-> c, ev |-> "start"]>>]

\* validateMultipleUrls after Promise.all: running until both have returned,
\* then { allSafe, results } with results of { url, ...result }
Settle(batch, cs) ==
  LET UrlResult(call) ==
        [url |-> call.url, safe |-> call.result.safe, reason |-> call.result.reason,
         warnings |-> call.result.warnings]
  IN IF batch.state = "running" /\ \A c \in Checks : cs[c].pc = "done"
     THEN [state |-> "done",
           allSafe |-> \A c \in Checks : cs[c].result.safe,
           results |-> <<UrlResult(cs["c1"]), UrlResult(cs["c2"])>>]
     ELSE batch

\* validateUrlSafety(url) is called: the second invocation after the first.
UrlStart(c, url) ==
  /\ ubatch.state # "running"
  /\ ucalls[c].pc = "idle"
  /\ c = "c2" => ucalls["c1"].pc # "idle"
  /\ LET b == Begin(c, url, safetyCache, now) IN
       /\ ucalls' = [ucalls EXCEPT ![c] = b.call]
       /\ safetyCache' = b.cache
       /\ ulog' = ulog \o b.events
  /\ UNCHANGED <<ubatch, now>>
  /\ UNCHANGED <<chatVars, driver, hf, searchVars, concVars, embVars>>

\* fetch settles for an invocation, response.json() with it: the verdict is
\* cached and the response built from it is returned.
UrlApiReply(c, reply) ==
  /\ ucalls[c].pc = "fetching"
  /\ LET externalResult == checkExternalSafety(reply)
         warnings ==
           IF externalResult.failedCheck
           THEN <<Str(<<"Safety verification unavailable ", EM_DASH,
                        " admin will review this URL">>)>>
           ELSE <<>>
         response ==
           [safe |-> externalResult.safe,
            reason |-> IF Truthy(externalResult.reason) THEN externalResult.reason
                       ELSE Undefined,
            warnings |-> IF Len(warnings) > 0 THEN Arr(warnings) ELSE Undefined]
     IN /\ safetyCache' = setCachedResult(safetyCache, ucalls[c].domain,
                                          externalResult.safe, now)
        /\ ucalls' = [ucalls EXCEPT ![c] =
                        [@ EXCEPT !.pc = "done", !.api = reply,
                                  !.result = response, !.ended = now]]
  /\ ulog' = Append(ulog, [c |-> c, ev |-> "end"])
  /\ ubatch' = Settle(ubatch, ucalls')
  /\ UNCHANGED now
  /\ UNCHANGED <<chatVars, driver, hf, searchVars, concVars, embVars>>

\* validateMultipleUrls(urls) is called: urls.map starts the invocations in
\* the order of the array, each running to its first await.
ValidateMultipleUrls(urls) ==
  /\ ubatch.state = "none"
  /\ \A c \in Checks : ucalls[c].pc = "idle"
  /\ IF Len(urls) = 0
     THEN /\ ubatch' = [state |-> "done", allSafe |-> FALSE,
                        results |-> <<[url |-> Str(<<>>), safe |-> FALSE,
                                       reason |-> Str(<<"URLs array is required">>),
                                       warnings |-> Undefined]>>]
          /\ UNCHANGED <<ucalls, safetyCache, ulog>>
     ELSE LET b1 == Begin("c1", urls[1], safetyCache, now)
              b2 == Begin("c2", urls[2], b1.cache, now)
          IN /\ ucalls' = [c \in Checks |-> IF c = "c1" THEN b1.call ELSE b2.call]
             /\ safetyCache' = b2.cache
             /\ ulog' = ulog \o b1.events \o b2.events
             /\ ubatch' = Settle([ubatch EXCEPT !.state = "running"], ucalls')
  /\ UNCHANGED now
  /\ UNCHANGED <<chatVars, driver, hf, searchVars, concVars, embVars>>

\* Time passes before an invocation begins or settles: by a millisecond, or
\* by the TTL of the cache.
UrlTick(d) ==
  /\ \E c \in Checks : ucalls[c].pc # "done"
  /\ d = 1 => (now - 1) % CACHE_TTL_MS < MaxSkew
  /\ d = CACHE_TTL_MS => (now - 1) \div CACHE_TTL_MS < MaxDays
  /\ now' = now + d
  /\ UNCHANGED urlVars
  /\ UNCHANGED <<chatVars, driver, hf, searchVars, concVars, embVars>>

UrlNext ==
  \/ \E c \in Checks, url \in UrlInputs : UrlStart(c, url)
  \/ \E c \in Checks, reply \in ApiReplies : UrlApiReply(c, reply)
  \/ \E urls \in UrlArrays : ValidateMultipleUrls(urls)
  \/ \E d \in {1, CACHE_TTL_MS} : UrlTick(d)

UrlSpec == Init /\ [][UrlNext]_vars

(***************************************************************************)
(* Embedding generation (src/unnamed/part_008): main                       *)
(***************************************************************************)
BATCH_SIZE == 10

\* The largest number of nodes without an embedding the store starts with.
MaxNodes == 21

\* nodes.slice(i, i + BATCH_SIZE), with the short batch short by one
Batch_short(nodes, i) ==
  SubSeq(nodes, i + 1,
         IF i + BATCH_SIZE - 1 < Len(nodes) THEN i + BATCH_SIZE - 1
                                            ELSE Len(nodes))

\* nodes.slice(i, i + BATCH_SIZE)
Batch(nodes, i) ==
  SubSeq(nodes, i + 1,
         IF i + BATCH_SIZE < Len(nodes) THEN i + BATCH_SIZE ELSE Len(nodes))

\* main is started; initDriver connects or throws.
EmbMain(n, connected) ==
  /\ epc = "idle"
  /\ elacking' = n
  /\ epc' = IF connected THEN "stats" ELSE "exit1"
  /\ UNCHANGED <<enodes, ei, ebatches, ewrites, processedCount>>
  /\ UNCHANGED <<chatVars, now, driver, hf, searchVars, concVars, urlVars>>

\* getNodeStats answers: exit(0) when nothing remains.
EmbStats ==
  /\ epc = "stats"
  /\ epc' = IF elacking = 0 THEN "exit0" ELSE "pipeline"
  /\ UNCHANGED <<elacking, enodes, ei, ebatches, ewrites, processedCount>>
  /\ UNCHANGED <<chatVars, now, driver, hf, searchVars, concVars, urlVars>>

\* pipeline("feature-extraction", MODEL) resolves.
EmbPipeline ==
  /\ epc = "pipeline"
  /\ epc' = "fetch"
  /\ UNCHANGED <<elacking, enodes, ei, ebatches, ewrites, processedCount>>
  /\ UNCHANGED <<chatVars, now, driver, hf, searchVars, concVars, urlVars>>

\* fetchNodesWithoutEmbeddings resolves with the rows of the nodes whose
\* embedding is null, here their ids; the loop is entered with i = 0.
EmbFetch ==
  /\ epc = "fetch"
  /\ enodes' = [k \in 1..elacking |-> k]
  /\ ei' = 0
  /\ processedCount' = 0
  /\ epc' = IF 0 < Len(enodes') THEN "embed" ELSE "finalstats"
  /\ UNCHANGED <<elacking, ebatches, ewrites>>
  /\ UNCHANGED <<chatVars, now, driver, hf, searchVars, concVars, urlVars>>

\* Promise.all over generateEmbedding of the batch resolves.
EmbGenerate ==
  /\ epc = "embed"
  /\ epc' = "write"
  /\ UNCHANGED <<elacking, enodes, ei, ebatches, ewrites, processedCount>>
  /\ UNCHANGED <<chatVars, now, driver, hf, searchVars, concVars, urlVars>>

\* Promise.all over updateNodeEmbedding of the batch resolves; i += BATCH_SIZE
\* and the loop condition is evaluated.
EmbWrite ==
  /\ epc = "write"
  /\ LET batch == Batch(enodes, ei) IN
       /\ ewrites' = ewrites \o batch
       /\ ebatches' = Append(ebatches, batch)
       /\ processedCount' = processedCount + Len(batch)
  /\ ei' = ei + BATCH_SIZE
  /\ epc' = IF ei' < Len(enodes) THEN "embed" ELSE "finalstats"
  /\ UNCHANGED <<elacking, enodes>>
  /\ UNCHANGED <<chatVars, now, driver, hf, searchVars, concVars, urlVars>>

\* One updateNodeEmbedding of the batch rejects after j of the others wrote:
\* the catch of main exits with 1.
EmbWriteFail(j) ==
  /\ epc = "write"
  /\ j < Len(Batch(enodes, ei))
  /\ ewrites' = ewrites \o SubSeq(Batch(enodes, ei), 1, j)
  /\ epc' = "exit1"
  /\ UNCHANGED <<elacking, enodes, ei, ebatches, processedCount>>
  /\ UNCHANGED <<chatVars, now, driver, hf, searchVars, concVars, urlVars>>

\* getNodeStats, pipeline, fetchNodesWithoutEmbeddings or generateEmbedding
\* throws: the catch of main exits with 1.
EmbFail ==
  /\ epc \in {"stats", "pipeline", "fetch", "embed", "finalstats"}
  /\ epc' = "exit1"
  /\ UNCHANGED <<elacking, enodes, ei, ebatches, ewrites, processedCount>>
  /\ UNCHANGED <<chatVars, now, driver, hf, searchVars, concVars, urlVars>>

\* The final getNodeStats answers and main returns.
EmbFinalStats ==
  /\ epc = "finalstats"
  /\ epc' = "finished"
  /\ UNCHANGED <<elacking, enodes, ei, ebatches, ewrites, processedCount>>
  /\ UNCHANGED <<chatVars, now, driver, hf, searchVars, concVars, urlVars>>

EmbNext ==
  \/ \E n \in 0..MaxNodes, connected \in BOOLEAN : EmbMain(n, connected)
  \/ EmbStats
  \/ EmbPipeline
  \/ EmbFetch
  \/ EmbGenerate
  \/ EmbWrite
  \/ \E j \in 0..(BATCH_SIZE - 1) : EmbWriteFail(j)
  \/ EmbFail
  \/ EmbFinalStats

\* Every awaited promise of main settles, and the continuation then runs.
EmbSpec == Init /\ [][EmbNext]_vars /\ WF_vars(EmbNext)

(***************************************************************************)
(* Observations on a run                                                   *)
(***************************************************************************)
Count(seq, ev) == Cardinality({i \in 1..Len(seq) : seq[i] = ev})

LlmCalls == Count(trace, "llm_call")

ToolExecs == Count(trace, "tool_call")

SessionsOpened == Count(trace, "session_open")

Happened(ev) == \E i \in 1..Len(trace) : trace[i] = ev

RECURSIVE Only(_, _)
\* the events of seq that are in evs, in order
Only(seq, evs) ==
  IF Len(seq) = 0 THEN <<>>
  ELSE IF seq[1] \in evs THEN <<seq[1]>> \o Only(Tail(seq), evs)
  ELSE Only(Tail(seq), evs)

TypeOf(decision) == IF IsNullish(decision) THEN Undefined ELSE Get(decision, "type")

IsToolCall(decision) == StrictEqStr(TypeOf(decision), "tool_call")

IsFinal(decision) == StrictEqStr(TypeOf(decision), "final")

\* the candidate text of the parser is not JSON
NotJson(raw) ==
  /\ raw.k = "str"
  /\ LET cleaned == Trim(StripThink(raw.v))
     IN  ~JsonParse(IF HasBraces(cleaned) THEN BraceMatch(cleaned) ELSE cleaned).ok

ChatFailed == S("Chat request failed")

C2_FallbackOnSecondNonFinal ==
  (/\ pc = "done"
   /\ Len(decisions) = 2
   /\ IsToolCall(decisions[1])
   /\ ~IsFinal(decisions[2]))
  => /\ res.message.k = "str"
     /\ Contains(res.message.v, <<"unable to complete that request right now">>)
     /\ LlmCalls = 2
     /\ ToolExecs = 1

ApologyMessage ==
  Str(<<"I apologize, but I encountered an error processing your request. The administrators have been notified and will investigate this issue. Please try again later or contact support if the problem persists.">>)

\* C3 (as claimed): when the reply that ends the turn is text that is not
\* JSON, the response is a success carrying the fixed apology message, no
\* materials and the actions try_again, contact_support.
C3_ApologyOnMalformed ==
  (/\ pc = "done"
   /\ Len(raws) >= 1
   /\ NotJson(raws[Len(raws)]))
  => /\ res.status = 200
     /\ res.message = ApologyMessage
     /\ res.relatedMaterials = Arr(<<>>)
     /\ res.suggestedActions = Arr(<<S("try_again"), S("contact_support")>>)

\* missing, null, not a string, empty or made of blanks only
BlankMessage(message) ==
  \/ message.k # "str"
  \/ \A i \in 1..Len(message.v) : message.v[i] = WS

\* C4: a request whose message is missing, null, not a string, empty or
\* whitespace-only is answered 400 "message is required and must be a string"
\* with no LLM call, no tool execution and no store session.
C4_BlankMessageRejected ==
  (pc # "idle" /\ BlankMessage(body.message))
  => /\ pc = "done"
     /\ res.status = 400
     /\ res.error = S("message is required and must be a string")
     /\ LlmCalls = 0
     /\ ToolExecs = 0
     /\ SessionsOpened = 0

C4_Witness ==
  /\ pc = "done"
  /\ body.message = Str(<<WS, WS>>)
  /\ res.status = 400

\* C5 (as claimed): when every LLM call of the turn returned text and the
\* tool did not fail, the turn ends in a success response, never a 500.
C5_NoServerErrorFromText ==
  (/\ pc = "done"
   /\ Len(raws) >= 1
   /\ Len(raws) = LlmCalls
   /\ \A i \in 1..Len(raws) : raws[i].k = "str"
   /\ ~Happened("tool_fail"))
  => res.status = 200

\* C6 (as claimed): for every raw text the parser returns a decision of type
\* final or tool_call; JSON without such a type becomes the fallback final.
C6_ParserReturnsDecision ==
  \A i \in 1..Len(decisions) :
    raws[i].k = "str" => (IsFinal(decisions[i]) \/ IsToolCall(decisions[i]))

\* the value of a field of a decision, or its default when the field is absent
Field(decision, name, default) ==
  IF Get(decision, name).k = "undefined" THEN default ELSE Get(decision, name)

\* a final decision of the data model: text and sequences where present
WellTypedFinal(decision) ==
  /\ IsFinal(decision)
  /\ Get(decision, "message").k \in {"str", "undefined"}
  /\ Get(decision, "relatedMaterials").k \in {"arr", "undefined"}
  /\ Get(decision, "suggestedActions").k \in {"arr", "undefined"}

\* C7: when the first decision is final (message a text, materials and
\* actions sequences, absent fields defaulted), the response carries exactly
\* those fields, after exactly one LLM call and no tool execution.
C7_FinalMirrored ==
  (/\ pc = "done"
   /\ Len(decisions) >= 1
   /\ WellTypedFinal(decisions[1]))
  => /\ res.status = 200
     /\ res.message = Field(decisions[1], "message", Str(<<>>))
     /\ res.relatedMaterials = Field(decisions[1], "relatedMaterials", Arr(<<>>))
     /\ res.suggestedActions = Field(decisions[1], "suggestedActions", Arr(<<>>))
     /\ LlmCalls = 1
     /\ ToolExecs = 0

C7_Witness ==
  /\ pc = "done"
  /\ Len(decisions) = 1
  /\ WellTypedFinal(decisions[1])
  /\ Get(decisions[1], "relatedMaterials") = Arr(<<Material("n1", "React", "skill")>>)
  /\ res.relatedMaterials = Arr(<<Material("n1", "React", "skill")>>)

C9_ToolFailureEndsTurn ==
  Happened("tool_fail")
  => /\ pc = "done"
     /\ res.status = 500
     /\ res.error = ChatFailed
     /\ LlmCalls = 1
     /\ ToolExecs = 1

C9_Witness ==
  /\ Happened("tool_fail")
  /\ Happened("session_open")
  /\ Len(errors) = 1
  /\ res.message = S("Database connection failed")

\* C10: when an LLM call fails, the first or the second, the turn ends with
\* the 500 response "Chat request failed" carrying the text of the error, and
\* nothing is called after the failure.
C10_LlmFailureEndsTurn ==
  Happened("llm_fail")
  => /\ pc = "done"
     /\ res.status = 500
     /\ res.error = ChatFailed
     /\ res.message = errors[Len(errors)].message
     /\ SubSeq(trace, Len(trace) - 1, Len(trace)) = <<"llm_fail", "respond">>
     /\ Count(trace, "llm_fail") = 1

C10_Witness ==
  /\ Happened("llm_fail")
  /\ LlmCalls = 2
  /\ ToolExecs = 1
  /\ res.status = 500

(***************************************************************************)
(* C11..C20                                                                *)
(***************************************************************************)
\* a tool call that names neither of the two tools
UnknownTool(decision) ==
  /\ IsToolCall(decision)
  /\ ~StrictEqStr(Get(decision, "tool"), "search_materials")
  /\ ~StrictEqStr(Get(decision, "tool"), "request_material_addition")

\* C11: when the first decision calls a tool other than search_materials and
\* request_material_addition, the tool output is {error: "Unknown tool: <name>"},
\* no store session is opened and nothing fails in the tool, the second LLM
\* call ends with the turn "Tool result for <name>: <JSON of that payload>",
\* and the turn ends in a 500 only when the second LLM call fails or its
\* reply cannot be read as a decision.
C11_UnknownToolInjected ==
  (Len(decisions) >= 1 /\ UnknownTool(decisions[1]))
  => LET name == ToText(Get(decisions[1], "tool"))
         payload == Obj(<<P("error", Str(<<"Unknown tool: ">> \o name))>>)
     IN  /\ output = payload
         /\ ToolExecs = 1
         /\ SessionsOpened = 0
         /\ records = <<>>
         /\ ~Happened("tool_fail")
         /\ Len(calls) = 2
         /\ calls[2][Len(calls[2])] =
              Turn(S("user"),
                   Str(<<"Tool result for ">> \o name \o <<": ">> \o Stringify(payload)))
         /\ (pc = "done" /\ res.status = 500)
            => (Happened("llm_fail") \/ IsNullish(decisions[Len(decisions)]))

C11_Witness ==
  /\ pc = "done"
  /\ res.status = 200
  /\ UnknownTool(decisions[1])
  /\ tool = S("delete_everything")
  /\ IsFinal(decisions[2])

\* the nodeId values of the elements of a materials value
NodeIds(materials) ==
  IF materials.k = "arr"
  THEN {Get(materials.v[i], "nodeId") :
          i \in {j \in 1..Len(materials.v) : Get(materials.v[j], "nodeId").k # "undefined"}}
  ELSE {}

\* the ids of the nodes the search of this request returned
SearchIds ==
  IF StrictEqStr(tool, "search_materials") /\ Happened("tool_ok")
  THEN LET results == Get(output, "results").v
       IN  {Get(Get(results[i], "node"), "id") : i \in 1..Len(results)}
  ELSE {}

\* C12 (as claimed): every nodeId of the relatedMaterials of a success
\* response is the id of a node the search of the same request returned; a
\* request without a search returns no nodeId.
C12_NodeIdsFromSearch ==
  (pc = "done" /\ res.status = 200)
  => NodeIds(res.relatedMaterials) \subseteq SearchIds

\* C12 (amended): every nodeId of the relatedMaterials of a success response
\* is a nodeId of the relatedMaterials of the decision that ended the turn;
\* the handler adds none of its own.
C12_NodeIdsFromDecision ==
  (pc = "done" /\ res.status = 200)
  => NodeIds(res.relatedMaterials)
       \subseteq NodeIds(Get(decisions[Len(decisions)], "relatedMaterials"))

C12_Witness ==
  /\ pc = "done"
  /\ res.status = 200
  /\ Len(decisions) = 2
  /\ NodeIds(res.relatedMaterials) = {S("uuid-1")}
  /\ S("uuid-1") \in SearchIds

\* C13 (as claimed): in every success response message is a text and
\* relatedMaterials and suggestedActions are sequences, whatever the fields
\* of the decision object are.
C13_WellFormedResponse ==
  (pc = "done" /\ res.status = 200)
  => /\ res.message.k = "str"
     /\ res.relatedMaterials.k = "arr"
     /\ res.suggestedActions.k = "arr"

\* C14 (as claimed): every store session opened by executeTool for
\* search_materials, by searchNodesBySimilarity or by chatbotSearch has been
\* closed when the operation is over, also when the store read or the
\* embedding step threw.
C14_SessionsClosed ==
  /\ pc \in {"llm2", "done"}
     => Count(trace, "session_close") = Count(trace, "session_open")
  /\ spc = "done"
     => Count(strace, "session_close") = Count(strace, "session_open")

\* the transcripts a request with body b sends when it runs alone, given the
\* decisions ds it parsed and the tool output out it got
AloneCalls(b, ds, out) ==
  <<buildMessages(b.message, b.conversationHistory, b.customInstructions, NoToolResult)>>
  \o (IF Len(ds) >= 1 /\ IsToolCall(ds[1]) /\ out.k # "undefined"
      THEN <<buildMessages(b.message, b.conversationHistory, b.customInstructions,
                           ToolResult(Get(ds[1], "tool"), Get(ds[1], "args"), out))>>
      ELSE <<>>)

\* the tool output a request gets when it runs alone, given its first
\* decision, the records and the query embedding it read, and the clock
AloneOutput(q) ==
  IF StrictEqStr(q.tool, "search_materials")
  THEN IF Len(q.records) = 0 THEN NoEmbeddings
       ELSE SearchOutput(q.records, q.queryEmbedding, LimitOf(q.args))
  ELSE IF StrictEqStr(q.tool, "request_material_addition")
  THEN MaterialRequestOutput(q.time)
  ELSE UnknownToolOutput(q.tool)

\* C15: with several chat requests interleaved, each request sends the
\* transcripts and returns the response that it produces running alone with
\* the same body, LLM replies, tool results and clock readings.
C15_RequestsIsolated ==
  \A r \in Requests :
    LET q == reqs[r]
    IN  /\ q.pc \notin {"idle"} /\ q.res.status \notin {400}
           => q.calls = AloneCalls(q.body, q.decisions, q.output)
        /\ q.pc = "llm2" => q.output = AloneOutput(q)
        /\ (q.pc = "done" /\ q.res.status = 200)
           => q.res = FinalResponse(q.decisions[Len(q.decisions)], q.body.sessionId, q.time)

C15_Witness ==
  /\ \A r \in Requests : reqs[r].pc = "done" /\ reqs[r].res.status = 200
                          /\ Len(reqs[r].calls) = 2
  /\ reqs["r1"].body # reqs["r2"].body
  /\ started = <<"r1", "r2">>
  /\ reqs["r1"].time > reqs["r2"].time

\* the requestId a request was given by request_material_addition
RequestIdOf(r) == Get(reqs[r].output, "requestId")

Queued(r) ==
  /\ StrictEqStr(reqs[r].tool, "request_material_addition")
  /\ reqs[r].output.k = "obj"

\* C16 (as claimed): two executions of request_material_addition, in
\* concurrently handled requests too, return distinct requestId values, each
\* with the status queued.
C16_RequestIdsDistinct ==
  \A r1 \in Requests, r2 \in Requests :
    (r1 # r2 /\ Queued(r1) /\ Queued(r2))
    => /\ RequestIdOf(r1) # RequestIdOf(r2)
       /\ Get(reqs[r1].output, "status") = S("queued")

\* the turns of a history value: none when it is not a sequence
HistoryTurns(history) == IF history.k = "arr" THEN history.v ELSE <<>>

\* instructions that are present and not empty
HasInstructions(instructions) == instructions.k = "str" /\ Len(instructions.v) > 0

\* C17: the transcript of the first LLM call (no tool result injected) is, in
\* this order: the system turn with the policy prompt; a system turn
\* "Additional instructions: ..." exactly when customInstructions is present
\* and non-empty; the turns of the history in their order with role and
\* content unchanged; the user turn with the user message.
C17_TranscriptLayout ==
  Len(calls) >= 1
  => LET m == calls[1]
         h == HistoryTurns(body.conversationHistory)
         first == IF HasInstructions(body.customInstructions) THEN 2 ELSE 1
     IN  /\ Len(m) = first + Len(h) + 1
         /\ m[1] = Turn(S("system"), Str(SYSTEM_PROMPT))
         /\ HasInstructions(body.customInstructions)
            => m[2] = Turn(S("system"),
                           Str(<<"Additional instructions: ">> \o body.customInstructions.v))
         /\ \A i \in 1..Len(h) :
              m[first + i] = Turn(Get(h[i], "role"), Get(h[i], "content"))
         /\ m[Len(m)] = Turn(S("user"), body.message)

C17_Witness ==
  /\ Len(calls) >= 1
  /\ body.conversationHistory = History2
  /\ body.customInstructions = S("Focus on beginners")
  /\ Len(calls[1]) = 5
  /\ calls[1][4].role = S("assistant")

\* C18: after a first decision that is a tool call, the transcript of the
\* second LLM call is the transcript of the first followed by exactly two
\* turns: an assistant turn whose content is JSON of type tool_call that
\* carries the tool and the args of the first decision unchanged, then the
\* user turn "Tool result for <tool>: <JSON of the output>".
C18_SecondTranscript ==
  (Len(decisions) >= 1 /\ IsToolCall(decisions[1]) /\ Len(calls) = 2)
  => LET n == Len(calls[1])
         echoed == JsonParse(calls[2][n + 1].content.v)
     IN  /\ Len(calls[2]) = n + 2
         /\ SubSeq(calls[2], 1, n) = calls[1]
         /\ calls[2][n + 1].role = S("assistant")
         /\ echoed.ok
         /\ Get(echoed.val, "type") = S("tool_call")
         /\ Get(echoed.val, "tool") = Get(decisions[1], "tool")
         /\ Get(echoed.val, "args") = Get(decisions[1], "args")
         /\ calls[2][n + 2] =
              Turn(S("user"),
                   Str(<<"Tool result for ">> \o ToText(Get(decisions[1], "tool"))
                       \o <<": ">> \o Stringify(output)))
         /\ Happened("tool_ok")

C18_Witness ==
  /\ Len(calls) = 2
  /\ Len(calls[1]) = 5
  /\ Len(calls[2]) = 7
  /\ StrictEqStr(Get(decisions[1], "tool"), "search_materials")
  /\ Get(Get(decisions[1], "args"), "limit") = Num(1)
  /\ Len(Get(output, "results").v) = 1

\* a session id the request supplies: one that is not absent, null or empty
Supplied(sessionId) == Truthy(sessionId)

\* session_<digits>
Generated(sessionId) ==
  /\ sessionId.k = "str"
  /\ Len(sessionId.v) = 2
  /\ sessionId.v[1] = "session_"
  /\ \E n \in 0..(1 + 4 * MaxDelay) : sessionId.v[2] = ToString(n)

\* C19: the sessionId of a success response is the sessionId of the request
\* when the request supplies one (absent, null and empty count as none),
\* and otherwise a generated session_<digits>.
C19_SessionId ==
  (pc = "done" /\ res.status = 200)
  => IF Supplied(body.sessionId)
     THEN res.sessionId = body.sessionId
     ELSE Generated(res.sessionId)

C19_Witness ==
  /\ pc = "done"
  /\ res.status = 200
  /\ body.sessionId = S("test-session-123")
  /\ res.sessionId = S("test-session-123")
  /\ Len(decisions) = 2

\* the place of a scored node in the records as they were retrieved
Retrieved(result) ==
  CHOOSE i \in 1..Len(srecords) : srecords[i].node = Get(result, "node")

\* C20: the results of a search are in non-increasing order of similarity,
\* and results of equal similarity are in the order of their retrieval.
C20_SortedStable ==
  (spc = "done" /\ sres.results.k = "arr")
  => LET rs == sres.results.v
     IN  \A i \in 1..Len(rs), j \in 1..Len(rs) :
           i < j
           => /\ Get(rs[i], "similarity").v >= Get(rs[j], "similarity").v
              /\ Get(rs[i], "similarity") = Get(rs[j], "similarity")
                 => Retrieved(rs[i]) < Retrieved(rs[j])

C20_Witness ==
  /\ spc = "done"
  /\ sres.results.k = "arr"
  /\ Len(sres.results.v) = 3
  /\ Get(sres.results.v[1], "similarity") = Get(sres.results.v[2], "similarity")
  /\ Get(sres.results.v[2], "similarity").v > Get(sres.results.v[3], "similarity").v
  /\ Retrieved(sres.results.v[2]) = 3

(***************************************************************************)
(* C21..C30                                                                *)
(***************************************************************************)
SearchDid(ev) == \E i \in 1..Len(strace) : strace[i] = ev

\* C21: when the read of a search finds no node with an embedding, the search
\* ends as a success with results = [] and a note, and the embedding provider
\* is not invoked.
C21_EmptyStore ==
  (SearchDid("read_ok") /\ Len(srecords) = 0)
  => /\ spc = "done"
     /\ sres.outcome \in {"json", "returned"}
     /\ sres.outcome = "json" => sres.status = 200
     /\ sres.error = Undefined
     /\ sres.results = Arr(<<>>)
     /\ sres.note.k = "str"
     /\ Len(sres.note.v) > 0
     /\ ~SearchDid("embed_call")

C21_Witness ==
  /\ SearchDid("read_ok")
  /\ Len(srecords) = 0
  /\ skind = "chatbotSearch"
  /\ sres.status = 200

\* the limit of the search when it is a positive integer or absent
PositiveLimit == sbody.limit.k = "undefined" \/ (sbody.limit.k = "num" /\ sbody.limit.v > 0)

\* the nodes of the results of the search
Returned == {Get(sres.results.v[i], "node") : i \in 1..Len(sres.results.v)}

\* C22: for a positive integer limit (5 when absent) and N embedded nodes a
\* search returns min(limit, N) results, and no node left out has a higher
\* similarity than a node returned.
C22_Truncated ==
  (spc = "done" /\ sres.results.k = "arr" /\ PositiveLimit)
  => LET limit == IF sbody.limit.k = "undefined" THEN 5 ELSE sbody.limit.v
         N == Len(srecords)
         rs == sres.results.v
     IN  /\ Len(rs) = IF limit < N THEN limit ELSE N
         /\ \A i \in 1..N, j \in 1..Len(rs) :
              srecords[i].node \notin Returned
              => Dot(srecords[i].embedding, sembedding) <= Get(rs[j], "similarity").v

C22_Witness ==
  /\ spc = "done"
  /\ sres.results.k = "arr"
  /\ sbody.limit.k = "undefined"
  /\ Len(srecords) = 6
  /\ Len(sres.results.v) = 5
  /\ Get(sres.results.v[5], "similarity") = Num(0)

\* C23 (as claimed): for every raw text, the JSON text of the decision parsed
\* from it parses to that same decision.
C23_ParseIdempotent ==
  \A i \in 1..Len(decisions) :
    raws[i].k = "str"
    => parseLlmResponse(Str(Stringify(decisions[i]))) = decisions[i]

\* C28: nodes without an embedding are processed in consecutive batches of at
\* most 10, every run of main ends, and a run that finished without error
\* wrote the embedding of each such node exactly once.
RECURSIVE Concat(_)
Concat(ss) == IF ss = <<>> THEN <<>> ELSE Head(ss) \o Concat(Tail(ss))

EmbBatchesConsecutive ==
  /\ \A k \in 1..Len(ebatches) : Len(ebatches[k]) \in 1..10
  /\ \A k \in 1..(Len(ebatches) - 1) : Len(ebatches[k]) = 10
  /\ Concat(ebatches) = SubSeq(enodes, 1, Len(Concat(ebatches)))

EmbWrittenOnce ==
  epc = "finished" =>
    \A n \in 1..elacking :
      Cardinality({k \in 1..Len(ewrites) : ewrites[k] = n}) = 1

C28_BatchLoop ==
  /\ [](EmbBatchesConsecutive /\ EmbWrittenOnce)
  /\ <>(epc \in {"finished", "exit0", "exit1"})

C28_Witness ==
  /\ epc = "finished"
  /\ elacking = 21
  /\ Len(ebatches) = 3
  /\ Len(ebatches[3]) = 1

\* Observations on the invocations of validateUrlSafety.
Position(c, ev) ==
  IF \E i \in 1..Len(ulog) : ulog[i] = [c |-> c, ev |-> ev]
  THEN CHOOSE i \in 1..Len(ulog) : ulog[i] = [c |-> c, ev |-> ev]
  ELSE 0

\* invocation b began after invocation a had returned
BeganAfter(b, a) ==
  /\ Position(a, "end") > 0
  /\ Position(b, "start") > Position(a, "end")

\* invocation a completed an external check and b, a later invocation, is for
\* a URL of the same domain
LaterSameDomain(a, b) ==
  /\ a # b
  /\ ucalls[a].pc = "done"
  /\ ucalls[a].fetched
  /\ BeganAfter(b, a)
  /\ ucalls[b].domain = ucalls[a].domain

DAY == 86400000

Plain(safe) == [safe |-> safe, reason |-> Undefined, warnings |-> Undefined]

\* C24: a well-formed URL of a trusted domain, or of a subdomain of one, is
\* answered safe = true with no reason and no warning, and without a call of
\* the external API, whatever the cache holds.
TrustedUrls ==
  { Str(<<"https://", "github", ".", "com", "/", "x">>),
    Str(<<"https://", "www", ".", "GitHub", ".", "com">>) }

C24_TrustedFastPath ==
  \A c \in Checks :
    (ucalls[c].pc # "idle" /\ ucalls[c].url \in TrustedUrls) =>
      /\ ucalls[c].pc = "done"
      /\ ~ucalls[c].fetched
      /\ ucalls[c].result = Plain(TRUE)

C24_Witness ==
  /\ ucalls["c2"].pc = "done"
  /\ ucalls["c2"].url = Str(<<"https://", "www", ".", "GitHub", ".", "com">>)
  /\ ucalls["c2"].result.safe
  /\ \E d \in DOMAIN safetyCache : ~safetyCache[d].safe

\* C25: once an invocation completed an external check of a domain, a later
\* invocation for a URL of that domain that calls the external API does so
\* only more than 24 hours after that check, and one that does not returns the
\* cached verdict: safe = true, or safe = false with the reason "Domain
\* previously flagged as unsafe".
C25_CachedWithinTtl ==
  \A a \in Checks, b \in Checks :
    LaterSameDomain(a, b) =>
      IF ucalls[b].fetched
      THEN now - ucalls[a].ended > DAY
      ELSE /\ ucalls[b].pc = "done"
           /\ ucalls[b].result =
                IF ucalls[a].result.safe THEN Plain(TRUE)
                ELSE [safe |-> FALSE,
                      reason |-> Str(<<"Domain previously flagged as unsafe">>),
                      warnings |-> Undefined]

C25_Witness ==
  /\ LaterSameDomain("c1", "c2")
  /\ ~ucalls["c2"].fetched
  /\ ucalls["c2"].ended - ucalls["c1"].ended = DAY
  /\ ucalls["c2"].url # ucalls["c1"].url
  /\ ucalls["c2"].result.reason = Str(<<"Domain previously flagged as unsafe">>)

\* C26: an entry older than 24 hours is never used: no later invocation is
\* answered from the cache more than 24 hours after the check, and the
\* invocation that finds the entry expired removes it and performs a new
\* external check, whose result becomes the entry.
C26_ExpiredNotUsed ==
  \A a \in Checks, b \in Checks :
    LaterSameDomain(a, b) =>
      /\ ~ucalls[b].fetched => ucalls[b].ended - ucalls[a].ended <= DAY
      /\ ucalls[b].pc = "fetching" => ucalls[b].domain \notin DOMAIN safetyCache
      /\ (ucalls[b].pc = "done" /\ ucalls[b].fetched) =>
            /\ ucalls[b].domain \in DOMAIN safetyCache
            /\ safetyCache[ucalls[b].domain] =
              [present |-> TRUE, safe |-> ucalls[b].result.safe,
               timestamp |-> ucalls[b].ended]

C26_Witness ==
  /\ LaterSameDomain("c1", "c2")
  /\ ucalls["c2"].pc = "done"
  /\ ucalls["c2"].fetched
  /\ ucalls["c2"].ended - ucalls["c1"].ended = DAY + 1
  /\ ucalls["c1"].result.safe
  /\ ~ucalls["c2"].result.safe

\* C27: when the external API answers with a non-OK status or an unparsable
\* body, or the request fails, the URL is reported safe = true with the one
\* warning "Safety verification unavailable [em dash] admin will review this
\* URL"; when the external check succeeds the result carries no warnings.
CheckFailed(reply) ==
  \/ reply.kind = "rejected"
  \/ reply.kind = "response" /\ ~reply.ok
  \/ reply.kind = "response" /\ reply.ok /\ reply.json = "throws"

C27_FailOpen ==
  \A c \in Checks :
    (ucalls[c].pc = "done" /\ ucalls[c].fetched) =>
      IF CheckFailed(ucalls[c].api)
      THEN ucalls[c].result =
             [safe |-> TRUE, reason |-> Undefined,
              warnings |-> Arr(<<Str(<<"Safety verification unavailable ", EM_DASH,
                                       " admin will review this URL">>)>>)]
      ELSE ucalls[c].result.warnings = Undefined

C27_Witness ==
  /\ ucalls["c1"].pc = "done"
  /\ ucalls["c1"].api.kind = "response"
  /\ ~ucalls["c1"].api.ok
  /\ ucalls["c1"].result.safe
  /\ ucalls["c2"].pc = "done"
  /\ ucalls["c2"].fetched
  /\ ucalls["c2"].api.json = "value"
  /\ ucalls["c2"].result.warnings = Undefined

\* C29: a URL that is not whitelisted is reported safe without the warning
\* only if an external check of its domain succeeded and came back clean
\* within the 24 hours before.
CleanCheck(a) ==
  /\ ucalls[a].pc = "done"
  /\ ucalls[a].fetched
  /\ ~CheckFailed(ucalls[a].api)
  /\ ucalls[a].result.safe

NotWhitelisted == {<<"example", ".", "com">>, <<"evilgithub", ".", "com">>}

C29_VerifiedSafe ==
  \A c \in Checks :
    ( /\ ucalls[c].pc = "done"
      /\ ucalls[c].domain \in NotWhitelisted
      /\ ucalls[c].result.safe
      /\ ucalls[c].result.warnings = Undefined ) =>
      \E a \in Checks :
        /\ CleanCheck(a)
        /\ ucalls[a].domain = ucalls[c].domain
        /\ ucalls[a].ended <= ucalls[c].ended
        /\ ucalls[c].ended - ucalls[a].ended <= DAY

\* C30: when two URLs of the same uncached domain are checked in parallel and
\* one of them is flagged unsafe, the cache entry of the domain ends up
\* unsafe, whatever the order of completion.
InParallel(a, b) ==
  /\ a # b
  /\ ucalls[a].pc = "done" /\ ucalls[a].fetched
  /\ ucalls[b].pc = "done" /\ ucalls[b].fetched
  /\ ucalls[a].domain = ucalls[b].domain
  /\ Position(b, "start") < Position(a, "end")
  /\ Position(a, "start") < Position(b, "end")

C30_UnsafeWins ==
  \A a \in Checks, b \in Checks :
    (InParallel(a, b) /\ ~ucalls[a].result.safe) =>
      /\ ucalls[a].domain \in DOMAIN safetyCache
      /\ ~safetyCache[ucalls[a].domain].safe
====
